---- MODULE Spec2Model ----
(***************************************************************************)
(* Email audit engine (src/main.py and its provider clients): the audit    *)
(* status state machine, the polling loop, the fallback policy, the       *)
(* completion-stability heuristic and the seed-list chunking.              *)
(*                                                                         *)
(* Eleven specifications:                                                   *)
(*   SpecSeed       split_seed_list applied to seed lists of 0..MaxSeeds   *)
(*   SpecStability  check_test_completion_stability fed poll after poll    *)
(*   SpecBand       _parse_postmark_results applied to every scanner score *)
(*   Spec           main(): the orchestrator loop over the Record Store    *)
(*   SpecFallback   main() while every placement-test creation fails and   *)
(*                  every store call succeeds, the loop kept running       *)
(*   SpecWait       main() with every store call succeeding and no human   *)
(*                  edit, the loop kept running                            *)
(*   SpecCrash      main() where a record may have an empty Audit ID title *)
(*                  and a status query of main() may raise                 *)
(*   SpecDefer      main() started (again) on a store that holds records   *)
(*                  parked in every in-progress status, store calls        *)
(*                  succeeding, the loop kept running                      *)
(*   SpecStarve     as SpecDefer, where a parked record may have lost its  *)
(*                  Domain relation                                        *)
(*   SpecTwo        two instances of the loop taking Running records from  *)
(*                  one store                                              *)
(*   SpecProbe      the credential-header variants of the requests to the  *)
(*                  placement-test provider                                *)
(***************************************************************************)
EXTENDS Integers, Sequences, FiniteSets, TLC

VARIABLES
    notion,           \* Record Store: page id -> properties and content blocks
    test_tracking,    \* EmailAuditEngine._test_tracking: test id -> entry
    glock_tests,      \* placement-test provider: number of tests created
    since_poll,       \* per test id: seconds since its last provider poll
    poll_gap,         \* per test id: seconds between its two latest polls
    store_failures,   \* handler runs that met a failing store call
    pc,               \* main(): "top" of the outer loop, inside the "wait" loop,
                      \* or "stopped" after the except clause of main()
    check_count,      \* main(): check_count of the wait loop
    over_budget,      \* main(): elapsed_time > max_time_seconds at the next pass
    tests_created,    \* per record: placement tests the provider created for it
    screenshot_dirs,  \* records whose screenshots/postmaster/<domain> exists
    picked,           \* per instance: the audit it took from its Running query
    current_header_index, \* GlockAppsAPI.current_header_index (from 1)
    requests,         \* the requests of the process: the variants each sent
    accepted_variant, \* the provider: the header variant it accepts (0: none)
    seed_list,        \* split_seed_list: the list returned by create_test
    seed_chunks,      \* split_seed_list: its result (<<>> before the call)
    not_delivered_history, \* tracking['not_delivered_history'] of one test id
    polls,            \* the successful polls issued so far for that test id
    poll_status,      \* results["status"] of the latest poll ("" before any)
    raw_result,       \* _parse_postmark_results: the scanner's JSON answer
    parsed_result     \* _parse_postmark_results: its result (NoResult before)

seedVars == <<seed_list, seed_chunks>>
stabVars == <<not_delivered_history, polls, poll_status>>
mainVars == <<store_failures, notion, test_tracking, glock_tests, since_poll, poll_gap, pc,
              check_count, over_budget, tests_created, screenshot_dirs>>
twoVars == <<picked>>
probeVars == <<current_header_index, requests, accepted_variant>>
scanVars == <<raw_result, parsed_result>>
vars == <<mainVars, seedVars, stabVars, scanVars, twoVars, probeVars>>

----------------------------------------------------------------------------
(* Bounds of the model *)

MaxSeeds == 200
MaxPolls == 5
NumRecs == 2       \* audit records in the store
MaxTests == 2      \* placement tests the provider creates before refusing
MaxBelowZero == 50    \* scanner scores of SpecBand run from -MaxBelowZero, in tenths of a point
MaxScore == 200

----------------------------------------------------------------------------
(* Text of a Notion rich_text field: a sequence of tokens.  A seed address *)
(* is a positive integer, the ", " that str.join puts between addresses   *)
(* is Sep, and the literal messages of the source are the codes below.     *)
(* The empty string "" is the empty sequence.                              *)

Sep == 0
FailedToRetrieve == <<-1>>          \* "Failed to retrieve"
FallbackGlockAppsFailed == <<-2>>   \* "Fallback - GlockApps failed"
EmptyText == <<>>                   \* ""

Min(a, b) == IF a < b THEN a ELSE b

\* ", ".join(chunk)
Join(chunk) ==
    [i \in 1..(2 * Len(chunk) - 1) |->
        IF i % 2 = 1 THEN chunk[(i + 1) \div 2] ELSE Sep]

\* the addresses a joined text holds: text.split(", ") without the empty text
Split(text) == SelectSeq(text, LAMBDA tok : tok > Sep)

RECURSIVE Concat(_)
Concat(seqs) ==
    IF seqs = <<>> THEN <<>> ELSE Head(seqs) \o Concat(Tail(seqs))

chunk_size == 25
max_chunks == 5

\* range(0, len(seed_list), chunk_size): the number of chunks appended
NumChunks(n, size) == (n + size - 1) \div size

\* mutant of split_seed_list: the final chunks[:max_chunks] is left out
split_seed_list_untruncated(list, size, maxc) ==
    IF list = <<>>
    THEN [k \in 1..maxc |-> FailedToRetrieve]
    ELSE LET n == NumChunks(Len(list), size)
             chunks == [k \in 1..n |->
                 Join(SubSeq(list, (k - 1) * size + 1, Min(k * size, Len(list))))]
         IN  IF n < maxc
             THEN chunks \o [k \in 1..(maxc - n) |-> EmptyText]
             ELSE chunks

\* mutant of split_seed_list: each slice is seed_list[i:i + chunk_size - 1]
split_seed_list_short_slice(list, size, maxc) ==
    IF list = <<>>
    THEN [k \in 1..maxc |-> FailedToRetrieve]
    ELSE LET n == NumChunks(Len(list), size)
             chunks == [k \in 1..n |->
                 Join(SubSeq(list, (k - 1) * size + 1,
                             Min(k * size - 1, Len(list))))]
             padded == IF n < maxc
                       THEN chunks \o [k \in 1..(maxc - n) |-> EmptyText]
                       ELSE chunks
         IN  SubSeq(padded, 1, maxc)

\* split_seed_list(seed_list, chunk_size=25, max_chunks=5)
split_seed_list(list, size, maxc) ==
    IF list = <<>>
    THEN [k \in 1..maxc |-> FailedToRetrieve]
    ELSE LET n == NumChunks(Len(list), size)
             chunks == [k \in 1..n |->
                 Join(SubSeq(list, (k - 1) * size + 1, Min(k * size, Len(list))))]
             padded == IF n < maxc
                       THEN chunks \o [k \in 1..(maxc - n) |-> EmptyText]
                       ELSE chunks
         IN  SubSeq(padded, 1, maxc)

----------------------------------------------------------------------------
(* The Record Store (Notion database) and the state of the engine          *)

Recs == 1..NumRecs
TestIds == 1..MaxTests

\* "GlockApps Test ID": "" is NoTestId, a provider id is 1..MaxTests, and
\* f"fallback_{int(time.time())}" is FallbackTestId
NoTestId == 0
FallbackTestId == -1
\* test_id_field.startswith("fallback_")
StartsWithFallback(test_id) == test_id = FallbackTestId

\* a number property that was never written
None == -1

\* the domain relation of a record:
\*   "none"          no relation, or get_domain_info returns None
\*   "unresolvable"  socket.gethostbyname raises socket.gaierror
\*   "ok"            the name resolves to an address
DomainKinds == {"none", "unresolvable", "ok"}

\* a page as created outside the engine, in status Running
NewPage(domain) ==
    [ status    |-> "Running",
      title     |-> TRUE,          \* Audit ID: the title holds a text item
      domain    |-> domain,
      ip_bl     |-> "",            \* IP Blacklist Status
      dom_bl    |-> "",            \* Domain Blacklist Status
      test_id   |-> NoTestId,      \* GlockApps Test ID
      seeds     |-> [k \in 1..max_chunks |-> EmptyText], \* Seed List 1..5
      inbox     |-> None,          \* Inbox Placement %
      spam      |-> None,          \* Spam Placement %
      score     |-> None,          \* Content Spam Score
      error_log |-> "",            \* Error Log
      blocks    |-> {} ]           \* content blocks of the page

\* self._test_tracking without an entry for the test id
NoEntry == [tracked |-> FALSE, history |-> <<>>, since_check |-> 0]

check_interval == 10   \* tracking['check_interval']
sleep_seconds == 30    \* time.sleep(30)
max_checks == 10       \* max_checks of the wait loop

\* seconds are counted up to check_interval: a longer time compares the same
Later(age, dt) == Min(age + dt, check_interval)

\* the orchestrator instances of SpecTwo; the other specifications run one
Instances == {1, 2}
NothingPicked == picked = [i \in Instances |-> 0]

\* GlockAppsAPI.__init__: current_header_index = 0, the first variant
ProbeIdle == current_header_index = 1 /\ requests = <<>> /\ accepted_variant = 0

\* The state a handler works on: the store, the engine's tracking table, the
\* provider's test counter, the poll clocks, and what the handler did so far
\* (trace: its provider calls and store calls in order, an update with the
\* field map it sent and the Error Log of the page after it; calls: the
\* number of store calls made).  env holds the outcomes of the external calls.
Begin(env) ==
    [ notion |-> notion, tracking |-> test_tracking, tests |-> glock_tests,
      since_poll |-> since_poll, poll_gap |-> poll_gap, dirs |-> screenshot_dirs,
      trace |-> <<>>, calls |-> 0, ret |-> FALSE, raised |-> FALSE, env |-> env ]

\* F applied to the value of x: a handler works on the state it is handed
Bind(x, F(_)) == CHOOSE y \in {F(v) : v \in {x}} : TRUE

\* does store call number k of the handler succeed
StoreOk(env, k) ==
    CASE env.fail.mode = "none" -> TRUE
      [] env.fail.mode = "one"  -> k # env.fail.at
      [] env.fail.mode = "all"  -> FALSE

\* mutant of Merge: the Error Log is appended to
Merge_appending(page, properties) ==
    [f \in DOMAIN page |->
        IF f \notin DOMAIN properties THEN page[f]
        ELSE IF f = "error_log" THEN page[f] \o properties[f]
        ELSE properties[f]]

\* properties merged into a page: pages.update(page_id, properties)
Merge(page, properties) ==
    [f \in DOMAIN page |->
        IF f \in DOMAIN properties THEN properties[f] ELSE page[f]]

\* NotionManager.update_audit_fields: one store call; it returns False when
\* the call fails and writes nothing then
update_audit_fields(S0, r, properties) == Bind(S0, LAMBDA S :
    LET k == S.calls + 1
        ok == StoreOk(S.env, k)
        page == IF ok THEN Merge(S.notion[r], properties) ELSE S.notion[r]
    IN  [S EXCEPT !.notion[r] = page,
                  !.calls = k,
                  !.trace = Append(@, [ev |-> "update", rec |-> r, ok |-> ok,
                                       from |-> S.notion[r].status,
                                       to |-> page.status,
                                       props |-> properties,
                                       log |-> page.error_log])])

\* NotionManager.replace_page_content_blocks: clears the page, appends blocks
replace_page_content_blocks(S0, r, blocks) == Bind(S0, LAMBDA S :
    LET k == S.calls + 1
        ok == StoreOk(S.env, k)
    IN  [S EXCEPT !.notion[r].blocks = IF ok THEN blocks ELSE @,
                  !.calls = k,
                  !.trace = Append(@, [ev |-> "replace", rec |-> r, ok |-> ok,
                                       from |-> S.notion[r].status,
                                       to |-> S.notion[r].status])])

\* client.blocks.children.append / append_images_to_page
append_blocks(S0, r, blocks) == Bind(S0, LAMBDA S :
    LET k == S.calls + 1
        ok == StoreOk(S.env, k)
    IN  [S EXCEPT !.notion[r].blocks = IF ok THEN @ \cup blocks ELSE @,
                  !.calls = k,
                  !.trace = Append(@, [ev |-> "append", rec |-> r, ok |-> ok,
                                       from |-> S.notion[r].status,
                                       to |-> S.notion[r].status])])

\* an external provider call and its outcome, noted in the trace
Called(S0, r, call, out) == Bind(S0, LAMBDA S :
    [S EXCEPT !.trace = Append(@, [ev |-> "call", rec |-> r, ok |-> out = "ok",
                                   call |-> call, out |-> out,
                                   from |-> S.notion[r].status,
                                   to |-> S.notion[r].status])])

\* databases.query(filter = Audit Status equals status): the pages in the
\* fixed order of the store
RECURSIVE Ascending(_)
Ascending(set) ==
    IF set = {} THEN <<>>
    ELSE LET m == CHOOSE x \in set : \A y \in set : x <= y
         IN  <<m>> \o Ascending(set \ {m})

Query(S, status) == Ascending({r \in Recs : S.notion[r].status = status})

----------------------------------------------------------------------------
(* Steps 1-2 of an audit: EmailAuditEngine.process_single_audit            *)

\* outcomes of a provider call: a 200 answer, another status code, or an
\* exception of the transport (timeout, connection error, no response)
Outcomes == {"ok", "http", "transport"}

\* the seed lists create_test returns to the loop, by their number of
\* addresses: none, or two groups' worth (SpecSeed takes every length)
SeedSizes == {0, 30}
CreateOutcomes ==
    [kind : {"ok"}, emails : SeedSizes] \cup [kind : {"http", "transport"}, emails : {0}]

\* BlacklistChecker.check_ip_blacklists / check_domain_blacklists: the result
\* dict; .get('blacklisted') and .get('detections', 0) of a failed check
check_blacklists(out) ==
    CASE out = "ok"        -> [status |-> "checked", blacklisted |-> FALSE, detections |-> 0]
      [] out = "http"      -> [status |-> "failed", blacklisted |-> FALSE, detections |-> 0]
      [] out = "transport" -> [status |-> "error", blacklisted |-> FALSE, detections |-> 0]

\* the text written to "IP Blacklist Status" / "Domain Blacklist Status"
BlacklistStatusText(result) ==
    IF result.status = "fallback" THEN "Fallback - Check Failed"
    ELSE IF result.blacklisted THEN "BLACKLISTED"
    ELSE "Detections: 0"

\* error_properties of an unresolvable domain
error_properties ==
    [ ip_bl |-> "Error: Could not resolve IP",
      dom_bl |-> "Error: Could not resolve IP",
      status |-> "Error",
      error_log |-> "Failed to resolve IP" ]

\* fallback_properties of a failed test creation
fallback_properties ==
    [ test_id |-> FallbackTestId,
      seeds |-> <<FallbackGlockAppsFailed, EmptyText, EmptyText, EmptyText, EmptyText>>,
      status |-> "GlockApps Completed",
      inbox |-> 0,
      spam |-> 0,
      error_log |-> "GlockApps Error" ]

\* mutant of TestCreated: the engine marks the emails as sent itself
TestCreated_marks_sent(S0, r, emails) == Bind(S0, LAMBDA S :
    LET test_id == S.tests + 1
        list == [i \in 1..emails |-> i]
        chunks == split_seed_list(list, chunk_size, max_chunks)
        S1 == [Called(S, r, "create", "ok") EXCEPT !.tests = test_id]
        S2 == update_audit_fields(S1, r,
                  [test_id |-> test_id, seeds |-> chunks, status |-> "Test Created"])
    IN  update_audit_fields(S2, r,
            [status |-> "Emails Sent",
             error_log |-> "Ready for manual email sending"]))

\* the try block of step 2: create_test returned a test id and a seed list
TestCreated(S0, r, emails) == Bind(S0, LAMBDA S :
    LET test_id == S.tests + 1
        list == [i \in 1..emails |-> i]
        chunks == split_seed_list(list, chunk_size, max_chunks)
        S1 == [Called(S, r, "create", "ok") EXCEPT !.tests = test_id]
        S2 == update_audit_fields(S1, r,
                  [test_id |-> test_id, seeds |-> chunks, status |-> "Test Created"])
    IN  update_audit_fields(S2, r,
            [status |-> "Awaiting Email Sending",
             error_log |-> "Ready for manual email sending"]))

\* mutant of TestCreationFailed: the except block writes nothing
TestCreationFailed_silent(S, r, out) == Called(S, r, "create", out)

\* the except block of step 2: create_test raised
TestCreationFailed(S, r, out) ==
    update_audit_fields(Called(S, r, "create", out), r, fallback_properties)

\* mutant of process_single_audit: the result of get_domain_ip is not tested
process_single_audit_unchecked_ip(S0, r) == Bind(S0, LAMBDA S :
    LET page == S.notion[r] IN
    IF page.domain = "none" THEN S
    ELSE LET ip_result == check_blacklists(S.env.ip)
             domain_result == check_blacklists(S.env.dom)
             S1 == Called(Called(Called(S, r, "dns",
                                        IF page.domain = "ok" THEN "ok" ELSE "transport"),
                             r, "ip_blacklist", S.env.ip),
                             r, "domain_blacklist", S.env.dom)
             S2 == update_audit_fields(S1, r,
                       [ip_bl |-> BlacklistStatusText(ip_result),
                        dom_bl |-> BlacklistStatusText(domain_result)])
         IN  IF S.env.create.kind = "ok"
             THEN TestCreated(S2, r, S.env.create.emails)
             ELSE TestCreationFailed(S2, r, S.env.create.kind))

\* mutant of process_single_audit: the status of the record is read again
\* and a record that left Running is skipped
process_single_audit_rechecks_status(S0, r) == Bind(S0, LAMBDA S :
    LET page == S.notion[r] IN
    IF page.status # "Running" THEN S
    ELSE IF page.domain = "none" THEN S
    ELSE IF page.domain = "unresolvable"
    THEN update_audit_fields(Called(S, r, "dns", "transport"), r, error_properties)
    ELSE LET ip_result == check_blacklists(S.env.ip)
             domain_result == check_blacklists(S.env.dom)
             S1 == Called(Called(Called(S, r, "dns", "ok"),
                             r, "ip_blacklist", S.env.ip),
                             r, "domain_blacklist", S.env.dom)
             S2 == update_audit_fields(S1, r,
                       [ip_bl |-> BlacklistStatusText(ip_result),
                        dom_bl |-> BlacklistStatusText(domain_result)])
         IN  IF S.env.create.kind = "ok"
             THEN TestCreated(S2, r, S.env.create.emails)
             ELSE TestCreationFailed(S2, r, S.env.create.kind))

\* process_single_audit(audit)
process_single_audit(S0, r) == Bind(S0, LAMBDA S :
    LET page == S.notion[r] IN
    IF page.domain = "none" THEN S
    ELSE IF page.domain = "unresolvable"
    THEN update_audit_fields(Called(S, r, "dns", "transport"), r, error_properties)
    ELSE LET ip_result == check_blacklists(S.env.ip)
             domain_result == check_blacklists(S.env.dom)
             S1 == Called(Called(Called(S, r, "dns", "ok"),
                             r, "ip_blacklist", S.env.ip),
                             r, "domain_blacklist", S.env.dom)
             S2 == update_audit_fields(S1, r,
                       [ip_bl |-> BlacklistStatusText(ip_result),
                        dom_bl |-> BlacklistStatusText(domain_result)])
         IN  IF S.env.create.kind = "ok"
             THEN TestCreated(S2, r, S.env.create.emails)
             ELSE TestCreationFailed(S2, r, S.env.create.kind))

\* mutant of process_running_audits: the second Running record of the query
\* is processed as well
process_running_audits_every(S0) == Bind(S0, LAMBDA S :
    LET running_audits == Query(S, "Running") IN
    IF running_audits = <<>>
    THEN [S EXCEPT !.ret = FALSE]
    ELSE IF ~S.notion[running_audits[1]].title
    THEN [S EXCEPT !.raised = TRUE]
    ELSE IF Len(running_audits) = 1
    THEN [process_single_audit(S, running_audits[1]) EXCEPT !.ret = TRUE]
    ELSE [process_single_audit(process_single_audit(S, running_audits[1]),
                               running_audits[2]) EXCEPT !.ret = TRUE])

\* process_running_audits(): the first Running record of the query, if any.
\* The log line before the try block indexes the Audit ID title with [0]: an
\* empty title raises IndexError out of the function.
process_running_audits(S0) == Bind(S0, LAMBDA S :
    LET running_audits == Query(S, "Running") IN
    IF running_audits = <<>>
    THEN [S EXCEPT !.ret = FALSE]
    ELSE IF ~S.notion[running_audits[1]].title
    THEN [S EXCEPT !.raised = TRUE]
    ELSE [process_single_audit(S, running_audits[1]) EXCEPT !.ret = TRUE])

----------------------------------------------------------------------------
(* The placement-test poll: GlockAppsAPI.check_test_completion_stability   *)

NotDeliveredCounts == {5, 6, 7}

\* the provider's answer to GET /projects/{id}/tests?testId=...:
\*   "ok"        status 200, result.finished and result.stats.notDelivered
\*   "http"      a response with another status code
\*   "transport" no response for any header variant, or no project id
OkPolls == [kind : {"ok"}, finished : BOOLEAN, notDelivered : NotDeliveredCounts]
FailedPolls == [kind : {"http", "transport"}, finished : {FALSE}, notDelivered : {0}]

\* mutant of check_test_completion_stability: the history is never trimmed
check_test_completion_stability_no_pop(resp, hist) ==
    IF resp.kind # "ok"
    THEN [raised |-> TRUE, status |-> "", history |-> hist]
    ELSE IF resp.finished
    THEN [raised |-> FALSE, status |-> "completed", history |-> hist]
    ELSE LET kept == Append(hist, resp.notDelivered)
         IN  IF Len(kept) = 3 /\ Cardinality({kept[i] : i \in 1..Len(kept)}) = 1
             THEN [raised |-> FALSE, status |-> "completed", history |-> kept]
             ELSE [raised |-> FALSE, status |-> "not_ready", history |-> kept]

\* check_test_completion_stability(test_id, not_delivered_history): history is
\* the list object after the call (it is appended to and popped in place)
check_test_completion_stability(resp, hist) ==
    IF resp.kind # "ok"
    THEN [raised |-> TRUE, status |-> "", history |-> hist]
    ELSE IF resp.finished
    THEN [raised |-> FALSE, status |-> "completed", history |-> hist]
    ELSE LET appended == Append(hist, resp.notDelivered)
             kept == IF Len(appended) > 3 THEN Tail(appended) ELSE appended
         IN  IF Len(kept) = 3 /\ Cardinality({kept[i] : i \in 1..Len(kept)}) = 1
             THEN [raised |-> FALSE, status |-> "completed", history |-> kept]
             ELSE [raised |-> FALSE, status |-> "not_ready", history |-> kept]

----------------------------------------------------------------------------
(* The final step: spam-content scan, scraper and final report             *)

\* Scores are counted in tenths of a point: 4.9 is 49.  The thresholds of the
\* source (5, 10, 15) are whole points, so the scale keeps every comparison.
\* mutant of deliverability_status: the first threshold taken inclusive
deliverability_status_inclusive(score) ==
    IF score <= 50 THEN "Excellent"
    ELSE IF score < 100 THEN "Good"
    ELSE IF score < 150 THEN "Fair"
    ELSE "Poor"

\* _parse_postmark_results: "Determine deliverability status based on score"
deliverability_status(score) ==
    IF score < 50 THEN "Excellent"
    ELSE IF score < 100 THEN "Good"
    ELSE IF score < 150 THEN "Fair"
    ELSE "Poor"

\* the scanner's JSON answer: a "score" key with a number, or no such key
RawResults ==
    [present : {TRUE}, score : (0 - MaxBelowZero)..MaxScore] \cup {[present |-> FALSE, score |-> 0]}

NoResult == [status |-> "", spam_score |-> 0, deliverability_status |-> ""]
ScanIdle == raw_result = [present |-> FALSE, score |-> 0] /\ parsed_result = NoResult

\* PostmarkChecker._parse_postmark_results(raw_result, ...)
parse_postmark_results(raw) ==
    LET score == IF raw.present THEN raw.score ELSE 0
    IN  [ status |-> "success",
          spam_score |-> score,
          deliverability_status |-> deliverability_status(score) ]

\* PostmarkChecker.check_email_deliverability: a score (in tenths) of a 200
\* answer, or status "error" for another status code or an exception
ScanScores == {0, 70}
ScanOutcomes ==
    [kind : {"ok"}, score : ScanScores] \cup [kind : {"http", "transport"}, score : {0}]

\* mutant of check_email_deliverability: an exception of the transport is
\* parsed as an answer without a score
check_email_deliverability_parses_errors(scan) ==
    IF scan.kind = "ok"
    THEN parse_postmark_results([present |-> TRUE, score |-> scan.score])
    ELSE IF scan.kind = "transport"
    THEN parse_postmark_results([present |-> FALSE, score |-> 0])
    ELSE [status |-> "error", spam_score |-> 0, deliverability_status |-> ""]

check_email_deliverability(scan) ==
    IF scan.kind = "ok"
    THEN parse_postmark_results([present |-> TRUE, score |-> scan.score])
    ELSE [status |-> "error", spam_score |-> 0, deliverability_status |-> ""]

\* fallback_postmark_results of a failed scan
fallback_postmark_results ==
    [ status |-> "completed_with_errors",
      spam_score |-> 0,
      deliverability_status |-> "Unknown (API Failed)" ]

\* subprocess.run of postmaster_scraper.py: its exit code, or an exception
\* while launching it; manifest: latest.json was written to the domain
\* directory; images: the manifest lists screenshots that exist
ScraperOutcomes ==
    [kind : {"exit"}, code : {0}, manifest : {TRUE}, images : BOOLEAN]
        \cup [kind : {"exit"}, code : {0, 1}, manifest : {FALSE}, images : {FALSE}]
        \cup [kind : {"exception"}, code : {0}, manifest : {FALSE}, images : {FALSE}]

\* the scraper process ran for the domain of record r: capture_dashboard_
\* screenshots makes the domain directory (a run that stops before it leaves
\* none, which _cleanup_domain_directory treats alike)
ScraperRan(S0, r, outcome) == Bind(S0, LAMBDA S :
    LET scraper_ok == outcome.kind = "exit" /\ outcome.code = 0
        S1 == Called(S, r, "scraper",
                     IF scraper_ok THEN "ok"
                     ELSE IF outcome.kind = "exit" THEN "http" ELSE "transport")
    IN  IF outcome.kind = "exit" THEN [S1 EXCEPT !.dirs = @ \cup {r}] ELSE S1)

\* _cleanup_domain_directory(domain): shutil.rmtree of the domain directory
cleanup_domain_directory(S0, r) == Bind(S0, LAMBDA S : [S EXCEPT !.dirs = @ \ {r}])

\* _run_postmaster_scraper(domain): True iff the scraper exits with code 0
run_postmaster_scraper(outcome) == outcome.kind = "exit" /\ outcome.code = 0

\* ReportGenerator.generate_final_audit_report_blocks: the report, with the
\* fallback notes when the stored test id starts with "fallback_", and the
\* deliverability status of postmark_results in its Content Spam Score text
generate_final_audit_report_blocks(page, postmark_results) ==
    {"final_report", postmark_results.deliverability_status}
        \cup (IF StartsWithFallback(page.test_id) THEN {"fallback_warning"} ELSE {})
        \cup (IF page.ip_bl \in {"Fallback - Check Failed", "Error: Could not resolve IP"}
                 \/ page.dom_bl \in {"Fallback - Check Failed", "Error: Could not resolve IP"}
              THEN {"blacklist_note"} ELSE {})

\* _append_postmaster_images_direct: no manifest, return; no image, clean
\* up; else the heading, then the uploaded images and the clean-up.  A failed
\* append of the heading raises and skips the rest; after a failed upload
\* the directory is kept.
append_postmaster_images_direct(S0, r) == Bind(S0, LAMBDA S :
    IF ~S.env.scraper.manifest THEN S
    ELSE IF ~S.env.scraper.images THEN cleanup_domain_directory(S, r)
    ELSE LET S1 == append_blocks(S, r, {"screenshots_heading"})
             S2 == append_blocks(S1, r, {"image"})
         IN  IF ~StoreOk(S.env, S1.calls) THEN S1
             ELSE IF StoreOk(S.env, S2.calls) THEN cleanup_domain_directory(S2, r)
             ELSE S2)

\* mutant of update_notion_with_postmark_results: the first write names the
\* status of the step before
update_notion_with_postmark_results_regress(S0, r, postmark_results) == Bind(S0, LAMBDA S :
    LET S1 == update_audit_fields(S, r,
                  [status |-> "Test Created", score |-> postmark_results.spam_score])
    IN  update_audit_fields(S1, r, [status |-> "Completed"]))

\* mutant of update_notion_with_postmark_results: a failed scraper ends the
\* step before the audit is marked Completed
update_notion_with_postmark_results_halts(S0, r, postmark_results) == Bind(S0, LAMBDA S :
    LET S1 == update_audit_fields(S, r,
                  [status |-> "Postmark Completed", score |-> postmark_results.spam_score])
        outcome == S.env.scraper
        scraper_ok == run_postmaster_scraper(outcome)
        S2 == ScraperRan(S1, r, outcome)
    IN  IF S1.notion[r].domain = "none" THEN S1
        ELSE IF ~scraper_ok THEN S2
        ELSE update_audit_fields(
                 append_postmaster_images_direct(
                     replace_page_content_blocks(S2, r,
                         generate_final_audit_report_blocks(S2.notion[r], postmark_results)), r),
                 r, [status |-> "Completed"]))

\* _update_notion_with_postmark_results(page_id, postmark_results)
update_notion_with_postmark_results(S0, r, postmark_results) == Bind(S0, LAMBDA S :
    LET S1 == update_audit_fields(S, r,
                  [status |-> "Postmark Completed", score |-> postmark_results.spam_score])
        outcome == S.env.scraper
        scraper_ok == run_postmaster_scraper(outcome)
        S2 == ScraperRan(S1, r, outcome)
        S3 == IF S1.notion[r].domain = "none" THEN S1
              ELSE IF scraper_ok
              THEN append_postmaster_images_direct(
                       replace_page_content_blocks(S2, r,
                           generate_final_audit_report_blocks(S2.notion[r], postmark_results)), r)
              ELSE LET S2a == update_audit_fields(cleanup_domain_directory(S2, r), r,
                                  [error_log |-> "Postmaster scraper failed"])
                       S2b == replace_page_content_blocks(S2a, r,
                                  generate_final_audit_report_blocks(S2a.notion[r], postmark_results))
                   IN  append_blocks(S2b, r, {"missing_screenshots_note"})
    IN  update_audit_fields(S3, r, [status |-> "Completed"]))

\* mutant of run_postmark_deliverability_check: a failed scan ends the step
run_postmark_deliverability_check_halts(S0, r) == Bind(S0, LAMBDA S :
    IF S.notion[r].domain = "none" THEN S
    ELSE LET postmark_results == check_email_deliverability(S.env.scan)
             S1 == Called(S, r, "scan", S.env.scan.kind)
         IN  IF postmark_results.status = "success"
             THEN update_notion_with_postmark_results(S1, r, postmark_results)
             ELSE S1)

\* _run_postmark_deliverability_check(page_id, glockapps_results)
run_postmark_deliverability_check(S0, r) == Bind(S0, LAMBDA S :
    IF S.notion[r].domain = "none" THEN S
    ELSE LET postmark_results == check_email_deliverability(S.env.scan)
             S1 == Called(S, r, "scan", S.env.scan.kind)
         IN  IF postmark_results.status = "success"
             THEN update_notion_with_postmark_results(S1, r, postmark_results)
             ELSE update_notion_with_postmark_results(S1, r, fallback_postmark_results))

----------------------------------------------------------------------------
(* The placement-test poll of a record in Emails Sent                      *)

\* result.stats of a completed test
PollStats == [inboxRate |-> 90, spamRate |-> 10]

\* update_audit_results(page_id, results['data'])
update_audit_results(S0, r) == Bind(S0, LAMBDA S :
    LET S1 == update_audit_fields(S, r,
                  [status |-> "GlockApps Completed",
                   inbox |-> PollStats.inboxRate,
                   spam |-> PollStats.spamRate,
                   score |-> 0,
                   error_log |-> ""])
    IN  replace_page_content_blocks(S1, r, {"initial_report"}))

\* a tracking entry as get_test_report initialises it: last_check_time = 0
FreshEntry == [tracked |-> TRUE, history |-> <<>>, since_check |-> check_interval]

\* mutant of get_test_report: a poll that is not ready leaves a note
get_test_report_notes_waiting(S0, r) == Bind(S0, LAMBDA S :
    LET test_id == S.notion[r].test_id IN
    IF ~S.notion[r].title THEN S
    ELSE IF test_id = NoTestId THEN S
    ELSE IF StartsWithFallback(test_id)
    THEN update_audit_fields(S, r,
             [status |-> "GlockApps Completed", inbox |-> 0, spam |-> 0,
              error_log |-> "Using fallback values"])
    ELSE LET tracking == IF S.tracking[test_id].tracked
                         THEN S.tracking[test_id] ELSE FreshEntry
         IN  IF tracking.since_check < check_interval
             THEN [S EXCEPT !.tracking[test_id] = tracking]
             ELSE LET resp == S.env.poll
                      results == check_test_completion_stability(resp, tracking.history)
                      S1 == [Called(S, r, "poll", resp.kind) EXCEPT
                                !.tracking[test_id] =
                                    [tracking EXCEPT !.since_check = 0,
                                                     !.history = results.history],
                                !.poll_gap[test_id] = S.since_poll[test_id],
                                !.since_poll[test_id] = 0]
                  IN  IF results.raised
                      THEN update_audit_fields(S1, r,
                               [status |-> "Report Error",
                                error_log |-> "Failed to get test report"])
                      ELSE IF results.status = "not_ready"
                      THEN update_audit_fields(S1, r, [error_log |-> "Waiting for stability"])
                      ELSE [update_audit_results(S1, r) EXCEPT
                                !.tracking[test_id] = NoEntry])

\* mutant of get_test_report: a poll that raises is tried again at the next
\* sweep, the record stays as it is
get_test_report_retries(S0, r) == Bind(S0, LAMBDA S :
    LET test_id == S.notion[r].test_id IN
    IF ~S.notion[r].title THEN S
    ELSE IF test_id = NoTestId THEN S
    ELSE IF StartsWithFallback(test_id)
    THEN update_audit_fields(S, r,
             [status |-> "GlockApps Completed", inbox |-> 0, spam |-> 0,
              error_log |-> "Using fallback values"])
    ELSE LET tracking == IF S.tracking[test_id].tracked
                         THEN S.tracking[test_id] ELSE FreshEntry
         IN  IF tracking.since_check < check_interval
             THEN [S EXCEPT !.tracking[test_id] = tracking]
             ELSE LET resp == S.env.poll
                      results == check_test_completion_stability(resp, tracking.history)
                      S1 == [Called(S, r, "poll", resp.kind) EXCEPT
                                !.tracking[test_id] =
                                    [tracking EXCEPT !.since_check = 0,
                                                     !.history = results.history],
                                !.poll_gap[test_id] = S.since_poll[test_id],
                                !.since_poll[test_id] = 0]
                  IN  IF results.raised \/ results.status = "not_ready" THEN S1
                      ELSE [update_audit_results(S1, r) EXCEPT
                                !.tracking[test_id] = NoEntry])

\* get_test_report(audit)
get_test_report(S0, r) == Bind(S0, LAMBDA S :
    LET test_id == S.notion[r].test_id IN
    IF ~S.notion[r].title THEN S      \* IndexError, caught by the caller
    ELSE IF test_id = NoTestId THEN S
    ELSE IF StartsWithFallback(test_id)
    THEN update_audit_fields(S, r,
             [status |-> "GlockApps Completed", inbox |-> 0, spam |-> 0,
              error_log |-> "Using fallback values"])
    ELSE LET tracking == IF S.tracking[test_id].tracked
                         THEN S.tracking[test_id] ELSE FreshEntry
         IN  IF tracking.since_check < check_interval
             THEN [S EXCEPT !.tracking[test_id] = tracking]
             ELSE LET resp == S.env.poll
                      results == check_test_completion_stability(resp, tracking.history)
                      S1 == [Called(S, r, "poll", resp.kind) EXCEPT
                                !.tracking[test_id] =
                                    [tracking EXCEPT !.since_check = 0,
                                                     !.history = results.history],
                                !.poll_gap[test_id] = S.since_poll[test_id],
                                !.since_poll[test_id] = 0]
                  IN  IF results.raised
                      THEN update_audit_fields(S1, r,
                               [status |-> "Report Error",
                                error_log |-> "Failed to get test report"])
                      ELSE IF results.status = "not_ready" THEN S1
                      ELSE [update_audit_results(S1, r) EXCEPT
                                !.tracking[test_id] = NoEntry])

----------------------------------------------------------------------------
(* The sweeps                                                              *)

\* _handle_fallback_glockapps_audits(): every GlockApps Completed record whose
\* test id starts with "fallback_" is taken through the final step
RECURSIVE fallback_audits_loop(_, _)
fallback_audits_loop(S0, audits) == Bind(S0, LAMBDA S :
    IF audits = <<>> THEN S
    ELSE LET r == Head(audits)
         IN  fallback_audits_loop(
                 IF StartsWithFallback(S.notion[r].test_id)
                 THEN run_postmark_deliverability_check(S, r) ELSE S,
                 Tail(audits)))

\* mutant of handle_fallback_glockapps_audits: the query has no status filter
handle_fallback_glockapps_audits_any_status(S0) == Bind(S0, LAMBDA S :
    fallback_audits_loop(S, Ascending(Recs)))

handle_fallback_glockapps_audits(S0) == Bind(S0, LAMBDA S :
    fallback_audits_loop(S, Query(S, "GlockApps Completed")))

\* check_completed_tests(), step 1: for audit in emails_sent_audits
RECURSIVE emails_sent_loop(_, _)
emails_sent_loop(S0, audits) == Bind(S0, LAMBDA S :
    IF audits = <<>> THEN S
    ELSE emails_sent_loop(get_test_report(S, Head(audits)), Tail(audits)))

\* check_completed_tests(), step 2: the first GlockApps Completed record
glockapps_completed_step(S0) == Bind(S0, LAMBDA S :
    LET glockapps_completed_audits == Query(S, "GlockApps Completed")
    IN  IF glockapps_completed_audits = <<>> THEN S
        ELSE run_postmark_deliverability_check(S, glockapps_completed_audits[1]))

\* check_completed_tests(), step 3: the first Postmark Completed record, with
\* postmark_results rebuilt from the stored score
postmark_completed_step(S0) == Bind(S0, LAMBDA S :
    LET postmark_completed_audits == Query(S, "Postmark Completed")
    IN  IF postmark_completed_audits = <<>> THEN S
        ELSE LET r == postmark_completed_audits[1]
                 score == S.notion[r].score
                 postmark_results ==
                     [ status |-> "success",
                       spam_score |-> IF score = None THEN 0 ELSE score,
                       deliverability_status |-> "Unknown" ]
             IN  update_notion_with_postmark_results(S, r, postmark_results))

\* mutant of check_completed_tests: step 2 is left out
check_completed_tests_without_step_2(S0) == Bind(S0, LAMBDA S :
    postmark_completed_step(emails_sent_loop(S, Query(S, "Emails Sent"))))

\* check_completed_tests()
check_completed_tests(S0) == Bind(S0, LAMBDA S :
    postmark_completed_step(
        glockapps_completed_step(emails_sent_loop(S, Query(S, "Emails Sent")))))

\* one pass of the loop over parked records: the fallback handler, then the sweep
Sweep(S) == check_completed_tests(handle_fallback_glockapps_audits(S))

----------------------------------------------------------------------------
(* Spec: main(), the loop of the orchestrator over the Record Store        *)

\* the store call of a handler that fails: none, one of the first MaxFailAt,
\* or all; at most MaxStoreFailures handler runs meet a failing store call
MaxFailAt == 3
MaxStoreFailures == 1
NoFailure == [mode |-> "none", at |-> 0]
StoreFailures ==
    IF store_failures >= MaxStoreFailures THEN {NoFailure}
    ELSE {NoFailure, [mode |-> "all", at |-> 0]}
        \cup {[mode |-> "one", at |-> k] : k \in 1..MaxFailAt}

\* polls of the loop: a finished test, a not-finished one, a failure
MainPolls == {p \in OkPolls : p.notDelivered = 5} \cup FailedPolls

\* outcomes of the external calls when no call is made.  The polls, the
\* scans and the scraper runs of one pass of the loop meet the same outcome.
QuietEnv ==
    [ ip |-> "ok", dom |-> "ok",
      create |-> [kind |-> "http", emails |-> 0],
      poll |-> [kind |-> "ok", finished |-> FALSE, notDelivered |-> 5],
      scan |-> [kind |-> "http", score |-> 0],
      scraper |-> [kind |-> "exception", code |-> 0, manifest |-> FALSE, images |-> FALSE],
      fail |-> NoFailure ]

\* the state main() hands to a handler
Now == Begin(QuietEnv)

\* the outcomes process_running_audits can meet in this state; the provider
\* refuses a new test once it has created MaxTests of them
DispatchEnvs(Creates, Failures) ==
    LET running_audits == Query(Now, "Running")
        audited == running_audits # <<>> /\ notion[running_audits[1]].domain = "ok"
        resolved == running_audits # <<>> /\ notion[running_audits[1]].domain # "none"
    IN  { [QuietEnv EXCEPT !.ip = ip, !.dom = dom, !.create = create, !.fail = fail] :
            ip \in (IF audited THEN Outcomes ELSE {"ok"}),
            dom \in (IF audited THEN Outcomes ELSE {"ok"}),
            create \in (IF audited
                        THEN {c \in Creates : c.kind = "ok" => glock_tests < MaxTests}
                        ELSE {QuietEnv.create}),
            fail \in (IF resolved THEN Failures ELSE {NoFailure}) }

\* would this poll answer be treated as complete for a record of the sweep
Completes(poll) ==
    \E r \in Recs :
        /\ notion[r].status = "Emails Sent"
        /\ \/ StartsWithFallback(notion[r].test_id)
           \/ /\ notion[r].test_id \in TestIds
              /\ LET tracking == IF test_tracking[notion[r].test_id].tracked
                                 THEN test_tracking[notion[r].test_id]
                                 ELSE FreshEntry
                 IN  /\ tracking.since_check >= check_interval
                     /\ ~check_test_completion_stability(poll, tracking.history).raised
                     /\ check_test_completion_stability(poll, tracking.history).status
                            = "completed"

\* the outcomes a sweep can meet in this state: a poll for the records in
\* Emails Sent; a scan and a scraper run when a record is parked before
\* Completed or a poll is treated as complete; a failing store call when the
\* sweep writes
SweepEnvs(Failures) ==
    LET polled == \E r \in Recs : /\ notion[r].status = "Emails Sent"
                                  /\ notion[r].test_id \in TestIds
        parked == \E r \in Recs : notion[r].status = "GlockApps Completed"
        resumed == \E r \in Recs : notion[r].status = "Postmark Completed"
    IN  UNION {
          { [QuietEnv EXCEPT !.poll = poll, !.scan = scan,
                             !.scraper = scraper, !.fail = fail] :
              scan \in (IF parked \/ Completes(poll)
                        THEN ScanOutcomes ELSE {QuietEnv.scan}),
              scraper \in (IF parked \/ resumed \/ Completes(poll)
                           THEN ScraperOutcomes ELSE {QuietEnv.scraper}),
              fail \in (IF parked \/ resumed \/ Completes(poll)
                           \/ (polled /\ poll.kind # "ok")
                        THEN Failures ELSE {NoFailure}) } :
          poll \in (IF polled THEN MainPolls ELSE {QuietEnv.poll}) }

\* did a store call of the handler fail
StoreFailed(R) ==
    \E i \in 1..Len(R.trace) : R.trace[i].ev # "call" /\ ~R.trace[i].ok

\* the in_progress_audits query of main()
InProgress(S) ==
    \E r \in Recs : S.notion[r].status \in
        {"Awaiting Email Sending", "Emails Sent", "GlockApps Completed", "Postmark Completed"}

\* time a handler takes when no time.sleep follows it
Durations == {0, check_interval}

\* the state after a handler returned R and dt seconds passed
Finish(R, dt, next_pc, next_count) ==
    /\ notion' = R.notion
    /\ test_tracking' = [t \in TestIds |->
           IF R.tracking[t].tracked
           THEN [R.tracking[t] EXCEPT !.since_check = Later(@, dt)]
           ELSE NoEntry]
    /\ glock_tests' = R.tests
    /\ store_failures' = IF StoreFailed(R) THEN store_failures + 1 ELSE store_failures
    /\ since_poll' = [t \in TestIds |-> Later(R.since_poll[t], dt)]
    /\ poll_gap' = R.poll_gap
    /\ pc' = next_pc
    /\ check_count' = next_count
    /\ tests_created' = [r \in Recs |->
           tests_created[r] + Len(SelectSeq(R.trace, LAMBDA e :
               e.ev = "call" /\ e.rec = r /\ e.call = "create" /\ e.ok))]
    /\ screenshot_dirs' = R.dirs
    /\ UNCHANGED <<seedVars, stabVars, scanVars, twoVars, probeVars>>

Init ==
    /\ notion \in [Recs -> {NewPage(d) : d \in DomainKinds}]
    /\ test_tracking = [t \in TestIds |-> NoEntry]
    /\ glock_tests = 0
    /\ store_failures = 0
    /\ since_poll = [t \in TestIds |-> check_interval]
    /\ poll_gap = [t \in TestIds |-> check_interval]
    /\ pc = "top"
    /\ check_count = 0
    /\ over_budget = FALSE
    /\ tests_created = [r \in Recs |-> 0]
    /\ screenshot_dirs = {}
    /\ NothingPicked
    /\ ProbeIdle
    /\ seed_list = <<>>
    /\ seed_chunks = <<>>
    /\ not_delivered_history = <<>>
    /\ polls = <<>>
    /\ poll_status = ""
    /\ ScanIdle

\* audit_processed is True: time.sleep(30), then the wait loop; start_time
\* is taken right before the first pass
DispatchRunningIn(Creates, Failures) ==
    /\ pc = "top"
    /\ Query(Now, "Running") # <<>>
    /\ \E env \in DispatchEnvs(Creates, Failures) :
        \E R \in {process_running_audits(Begin(env))} :
            Finish(R, sleep_seconds, IF R.raised THEN "stopped" ELSE "wait", 0)
    /\ over_budget' = FALSE

\* no Running record, some record in progress: the sweep, then time.sleep(30)
IdleSweepIn(Failures) ==
    /\ pc = "top"
    /\ Query(Now, "Running") = <<>>
    /\ InProgress(Now)
    /\ \E env \in SweepEnvs(Failures) :
        \E R \in {Sweep(Begin(env))} :
            Finish(R, sleep_seconds, "top", 0)
    /\ over_budget' = FALSE

\* nothing to do: time.sleep(30)
IdleSleep ==
    /\ pc = "top"
    /\ Query(Now, "Running") = <<>>
    /\ ~InProgress(Now)
    /\ \E R \in {Now} : Finish(R, sleep_seconds, "top", 0)
    /\ over_budget' = FALSE

\* the three breaks that follow the sweep of a wait pass: failed_audits,
\* not in_progress_audits, completed_audits
WaitBreaks(R) ==
    \/ Query(R, "Blacklist Failed") # <<>>
    \/ ~InProgress(R)
    \/ Query(R, "Completed") # <<>>

\* mutant of WaitCheckIn: the time limit is not looked at
WaitCheckIn_no_time_limit(Failures) ==
    /\ pc = "wait"
    /\ \E env \in SweepEnvs(Failures) :
          \E R \in {Sweep(Begin(env))} :
            IF WaitBreaks(R)
            THEN /\ \E dt \in Durations : Finish(R, dt, "top", 0)
                 /\ over_budget' = FALSE
            ELSE IF check_count + 1 >= max_checks
            THEN /\ Finish(R, sleep_seconds, "top", 0)
                 /\ over_budget' = FALSE
            ELSE /\ Finish(R, sleep_seconds, "wait", check_count + 1)
                 /\ over_budget' \in BOOLEAN

\* one pass of the wait loop: the time limit, the sweep, the breaks, the
\* sleep.  The passes done so far took 30 s each or more, so the limit can be
\* exceeded from the second pass on; a break leaves the loop without a sleep.
WaitCheckIn(Failures) ==
    /\ pc = "wait"
    /\ IF over_budget
       THEN /\ \E dt \in Durations, R \in {Now} : Finish(R, dt, "top", 0)
            /\ over_budget' = FALSE
       ELSE \E env \in SweepEnvs(Failures) :
              \E R \in {Sweep(Begin(env))} :
                IF WaitBreaks(R)
                THEN /\ \E dt \in Durations : Finish(R, dt, "top", 0)
                     /\ over_budget' = FALSE
                ELSE IF check_count + 1 >= max_checks
                THEN /\ Finish(R, sleep_seconds, "top", 0)
                     /\ over_budget' = FALSE
                ELSE /\ Finish(R, sleep_seconds, "wait", check_count + 1)
                     /\ over_budget' \in BOOLEAN

\* the human sends the emails and sets the status by hand
HumanSendsEmails ==
    \E r \in Recs :
        /\ notion[r].status = "Awaiting Email Sending"
        /\ notion' = [notion EXCEPT ![r].status = "Emails Sent"]
        /\ UNCHANGED <<store_failures, test_tracking, glock_tests, since_poll, poll_gap, pc,
                       check_count, over_budget, tests_created, screenshot_dirs,
                       seedVars, stabVars, scanVars, twoVars, probeVars>>

DispatchRunning == DispatchRunningIn(CreateOutcomes, StoreFailures)
IdleSweep == IdleSweepIn(StoreFailures)
WaitCheck == WaitCheckIn(StoreFailures)

Next == DispatchRunning \/ IdleSweep \/ IdleSleep \/ WaitCheck \/ HumanSendsEmails

Spec == Init /\ [][Next]_vars

\* SpecFallback: the loop while the placement-test provider fails on every
\* call and every store call succeeds; the loop keeps running
FallbackCreates == {c \in CreateOutcomes : c.kind # "ok"}

DispatchRunningFallback == DispatchRunningIn(FallbackCreates, {NoFailure})
WaitCheckStoreOk == WaitCheckIn({NoFailure})

\* the sweep of the else branch is never enabled here: no record is left in
\* progress by the wait loop, and no human edit is waited for
NextFallback == DispatchRunningFallback \/ IdleSleep \/ WaitCheckStoreOk

SpecFallback == Init /\ [][NextFallback]_vars /\ WF_vars(NextFallback)

\* SpecWait: the loop with every store call succeeding and a human who never
\* sends the emails, so that a record with a placement test stays in Awaiting
\* Email Sending; the loop keeps running (the process is not stopped and
\* every call returns)
DispatchRunningStoreOk == DispatchRunningIn(CreateOutcomes, {NoFailure})
IdleSweepStoreOk == IdleSweepIn({NoFailure})

NextWait ==
    \/ DispatchRunningStoreOk
    \/ IdleSweepStoreOk
    \/ IdleSleep
    \/ WaitCheckStoreOk

SpecWait == Init /\ [][NextWait]_vars /\ WF_vars(NextWait)

\* SpecCrash: the loop with every store write succeeding and no human edit,
\* where a record may have an empty Audit ID title and a status query of
\* main() may raise
InitCrash ==
    /\ notion \in [Recs -> {[NewPage(d) EXCEPT !.title = t] :
                                d \in DomainKinds, t \in BOOLEAN}]
    /\ test_tracking = [t \in TestIds |-> NoEntry]
    /\ glock_tests = 0
    /\ store_failures = 0
    /\ since_poll = [t \in TestIds |-> check_interval]
    /\ poll_gap = [t \in TestIds |-> check_interval]
    /\ pc = "top"
    /\ check_count = 0
    /\ over_budget = FALSE
    /\ tests_created = [r \in Recs |-> 0]
    /\ screenshot_dirs = {}
    /\ NothingPicked
    /\ ProbeIdle
    /\ seed_list = <<>>
    /\ seed_chunks = <<>>
    /\ not_delivered_history = <<>>
    /\ polls = <<>>
    /\ poll_status = ""
    /\ ScanIdle

\* databases.query raises in main(): the in-progress query of the else
\* branch, or one of the three queries that follow the sweep of a wait pass.
\* No try block inside the loop holds them: the except clause of main() logs
\* the error and main() returns.
StoreQueryRaises ==
    /\ \/ /\ pc = "top"
          /\ Query(Now, "Running") = <<>>
          /\ \E R \in {Now} : Finish(R, 0, "stopped", 0)
       \/ /\ pc = "wait"
          /\ ~over_budget
          /\ \E env \in SweepEnvs({NoFailure}) :
                \E R \in {Sweep(Begin(env))} : Finish(R, 0, "stopped", 0)
    /\ over_budget' = FALSE

NextCrash ==
    \/ DispatchRunningStoreOk
    \/ IdleSweepStoreOk
    \/ IdleSleep
    \/ WaitCheckStoreOk
    \/ StoreQueryRaises

SpecCrash == InitCrash /\ [][NextCrash]_vars

\* SpecDefer: the process is started on a store whose records were left in
\* any status by an earlier run; the tracking table is empty, as after every
\* start.  Store calls succeed, no human edit is waited for, and the loop
\* keeps running.  Record r holds the placement test r when it holds one.
BlacklistChecked ==
    Merge(NewPage("ok"), [ip_bl |-> "Detections: 0", dom_bl |-> "Detections: 0"])

\* the page after the first write of step 2: the process was interrupted, or
\* the store refused the write, before the status Awaiting Email Sending
TestCreatedPage(test_id) ==
    Merge(BlacklistChecked,
          [test_id |-> test_id,
           seeds |-> split_seed_list([i \in 1..30 |-> i], chunk_size, max_chunks),
           status |-> "Test Created"])

\* the page after steps 1-2 and the human's edit
EmailsSentPage(test_id) ==
    Merge(BlacklistChecked,
          [test_id |-> test_id,
           seeds |-> split_seed_list([i \in 1..30 |-> i], chunk_size, max_chunks),
           status |-> "Emails Sent",
           error_log |-> "Ready for manual email sending"])

\* the page after update_audit_results
PolledPage(test_id) ==
    [Merge(EmailsSentPage(test_id),
           [status |-> "GlockApps Completed", inbox |-> PollStats.inboxRate,
            spam |-> PollStats.spamRate, score |-> 0, error_log |-> ""])
        EXCEPT !.blocks = {"initial_report"}]

\* the page after the except block of step 2
FallbackPage == Merge(BlacklistChecked, fallback_properties)

\* the page after the first write of _update_notion_with_postmark_results
ScannedPage(page) == Merge(page, [status |-> "Postmark Completed", score |-> 0])

ParkedPages(test_id) ==
    { EmailsSentPage(test_id), PolledPage(test_id), FallbackPage,
      ScannedPage(PolledPage(test_id)), ScannedPage(FallbackPage) }

InitDefer ==
    /\ notion \in [Recs -> UNION {ParkedPages(r) : r \in Recs}
                                \cup {TestCreatedPage(r) : r \in Recs}
                                \cup {NewPage(d) : d \in DomainKinds}]
    /\ \A r \in Recs : notion[r].test_id \in {NoTestId, FallbackTestId, r}
    /\ test_tracking = [t \in TestIds |-> NoEntry]
    /\ glock_tests = IF notion[2].test_id = 2 THEN 2
                     ELSE IF notion[1].test_id = 1 THEN 1 ELSE 0
    /\ store_failures = 0
    /\ since_poll = [t \in TestIds |-> check_interval]
    /\ poll_gap = [t \in TestIds |-> check_interval]
    /\ pc = "top"
    /\ check_count = 0
    /\ over_budget = FALSE
    /\ tests_created = [r \in Recs |-> IF notion[r].test_id = r THEN 1 ELSE 0]
    /\ screenshot_dirs = {}
    /\ NothingPicked
    /\ ProbeIdle
    /\ seed_list = <<>>
    /\ seed_chunks = <<>>
    /\ not_delivered_history = <<>>
    /\ polls = <<>>
    /\ poll_status = ""
    /\ ScanIdle

NextDefer ==
    \/ DispatchRunningStoreOk
    \/ IdleSweepStoreOk
    \/ IdleSleep
    \/ WaitCheckStoreOk

SpecDefer == InitDefer /\ [][NextDefer]_vars /\ WF_vars(NextDefer)

\* SpecStarve: as SpecDefer, the process is started on a store that holds
\* records parked after the placement-test poll, where the Domain relation
\* of a parked record may have been emptied since steps 1-2 (pages.retrieve
\* gives no relation, or get_domain_info no name)
Unreadable(page) == [page EXCEPT !.domain = "none"]

StarvePages(test_id) ==
    { PolledPage(test_id), ScannedPage(PolledPage(test_id)),
      Unreadable(PolledPage(test_id)), Unreadable(ScannedPage(PolledPage(test_id))),
      NewPage("ok") }

InitStarve ==
    /\ notion \in [Recs -> UNION {StarvePages(r) : r \in Recs}]
    /\ \A r \in Recs : notion[r].test_id \in {NoTestId, r}
    /\ test_tracking = [t \in TestIds |-> NoEntry]
    /\ glock_tests = IF notion[2].test_id = 2 THEN 2
                     ELSE IF notion[1].test_id = 1 THEN 1 ELSE 0
    /\ store_failures = 0
    /\ since_poll = [t \in TestIds |-> check_interval]
    /\ poll_gap = [t \in TestIds |-> check_interval]
    /\ pc = "top"
    /\ check_count = 0
    /\ over_budget = FALSE
    /\ tests_created = [r \in Recs |-> IF notion[r].test_id = r THEN 1 ELSE 0]
    /\ screenshot_dirs = {}
    /\ NothingPicked
    /\ ProbeIdle
    /\ seed_list = <<>>
    /\ seed_chunks = <<>>
    /\ not_delivered_history = <<>>
    /\ polls = <<>>
    /\ poll_status = ""
    /\ ScanIdle

NextStarve ==
    \/ DispatchRunningStoreOk
    \/ IdleSweepStoreOk
    \/ IdleSleep
    \/ WaitCheckStoreOk

SpecStarve == InitStarve /\ [][NextStarve]_vars /\ WF_vars(NextStarve)

\* SpecTwo: two instances of the loop on one store, store calls succeeding.
\* An instance takes the first record of its Running query, then runs steps
\* 1-2 on the audit it took; the query and the step are separate calls, so
\* the other instance may act between them.  The sweeps of the instances
\* are left out: they touch no Running record.
TwoEnvs(r) ==
    LET audited == notion[r].domain = "ok"
    IN  { [QuietEnv EXCEPT !.ip = ip, !.dom = dom, !.create = create] :
            ip \in (IF audited THEN Outcomes ELSE {"ok"}),
            dom \in (IF audited THEN Outcomes ELSE {"ok"}),
            create \in (IF audited
                        THEN {c \in CreateOutcomes : c.kind = "ok" => glock_tests < MaxTests}
                        ELSE {QuietEnv.create}) }

\* running_audits = self.notion.get_running_audits(); audit = running_audits[0]
PickRunning(i) ==
    /\ picked[i] = 0
    /\ Query(Now, "Running") # <<>>
    /\ picked' = [picked EXCEPT ![i] = Query(Now, "Running")[1]]
    /\ UNCHANGED <<mainVars, seedVars, stabVars, scanVars, probeVars>>

\* self.process_single_audit(audit) on the audit taken before
ProcessPicked(i) ==
    /\ picked[i] # 0
    /\ \E env \in TwoEnvs(picked[i]) :
          \E R \in {process_single_audit(Begin(env), picked[i])} :
            /\ notion' = R.notion
            /\ glock_tests' = R.tests
            /\ tests_created' = [r \in Recs |->
                   tests_created[r] + Len(SelectSeq(R.trace, LAMBDA e :
                       e.ev = "call" /\ e.rec = r /\ e.call = "create" /\ e.ok))]
    /\ picked' = [picked EXCEPT ![i] = 0]
    /\ UNCHANGED <<store_failures, test_tracking, since_poll, poll_gap, pc, check_count,
                   over_budget, screenshot_dirs, seedVars, stabVars, scanVars, probeVars>>

NextTwo == \E i \in Instances : PickRunning(i) \/ ProcessPicked(i)

SpecTwo == Init /\ [][NextTwo]_vars

----------------------------------------------------------------------------
(* SpecProbe: the credential headers of GlockAppsAPI.  The process tests   *)
(* the connection once, then sends requests; the provider accepts one      *)
(* header variant or none.                                                 *)

NumVariants == 4    \* len(self.headers_variants)
MaxRequests == 3    \* requests of one process, the connection test included

\* what the provider answers to a request sent with variant v:
\*   "ok"         status 200 or 201
\*   "auth"       401 or 500 with "No API key provided"
\*   "other"      another status code
\*   "exception"  requests.request raised
AttemptOutcomes(v) ==
    IF v = accepted_variant THEN {"ok", "other", "exception"}
    ELSE {"auth", "other", "exception"}

ProviderAnswers ==
    { out \in [1..NumVariants -> {"ok", "auth", "other", "exception"}] :
        \A v \in 1..NumVariants : out[v] \in AttemptOutcomes(v) }

\* for i, headers in enumerate(self.headers_variants): the variants sent, in
\* order, until an answer in `returns` ends the loop
VariantsSent(out, returns) ==
    LET ends == {v \in 1..NumVariants : out[v] \in returns}
        last == IF ends = {} THEN NumVariants
                ELSE CHOOSE v \in ends : \A w \in ends : v <= w
    IN  [j \in 1..last |-> j]

\* _make_request_with_retry(method, endpoint): the variants it sends and the
\* variant it sets current_header_index to (0: it sets none).  The loop runs
\* over all of headers_variants from the first, whatever was accepted before.
make_request_with_retry(out) ==
    LET sent == VariantsSent(out, {"ok", "other"})
        last == sent[Len(sent)]
    IN  [sent |-> sent, accepted |-> IF out[last] = "ok" THEN last ELSE 0]

\* test_api_connection(): as above, but every answer other than 200 goes on
\* to the next variant
test_api_connection(out) ==
    LET sent == VariantsSent(out, {"ok"})
        last == sent[Len(sent)]
    IN  [sent |-> sent, accepted |-> IF out[last] = "ok" THEN last ELSE 0]

\* the variant accepted by the latest request that was accepted (0: none yet)
Pinned(reqs) ==
    LET accepted == {m \in 1..Len(reqs) : reqs[m].accepted # 0}
    IN  IF accepted = {} THEN 0
        ELSE reqs[CHOOSE m \in accepted : \A k \in accepted : k <= m].accepted

InitProbe ==
    /\ notion = [r \in Recs |-> NewPage("none")]
    /\ test_tracking = [t \in TestIds |-> NoEntry]
    /\ glock_tests = 0
    /\ store_failures = 0
    /\ since_poll = [t \in TestIds |-> check_interval]
    /\ poll_gap = [t \in TestIds |-> check_interval]
    /\ pc = "top"
    /\ check_count = 0
    /\ over_budget = FALSE
    /\ tests_created = [r \in Recs |-> 0]
    /\ screenshot_dirs = {}
    /\ NothingPicked
    /\ current_header_index = 1
    /\ requests = <<>>
    /\ accepted_variant \in 0..NumVariants
    /\ seed_list = <<>>
    /\ seed_chunks = <<>>
    /\ not_delivered_history = <<>>
    /\ polls = <<>>
    /\ poll_status = ""
    /\ ScanIdle

\* main(): engine.glockapps.test_api_connection() before the loop
TestApiConnection ==
    /\ requests = <<>>
    /\ \E out \in ProviderAnswers :
          \E q \in {test_api_connection(out)} :
            /\ requests' = <<q>>
            /\ current_header_index' =
                   IF q.accepted # 0 THEN q.accepted ELSE current_header_index
    /\ UNCHANGED <<accepted_variant, mainVars, seedVars, stabVars, scanVars, twoVars>>

\* a request of the loop: _get_project_id, create_test, the polls
MakeRequest ==
    /\ requests # <<>>
    /\ Len(requests) < MaxRequests
    /\ \E out \in ProviderAnswers :
          \E q \in {make_request_with_retry(out)} :
            /\ requests' = Append(requests, q)
            /\ current_header_index' =
                   IF q.accepted # 0 THEN q.accepted ELSE current_header_index
    /\ UNCHANGED <<accepted_variant, mainVars, seedVars, stabVars, scanVars, twoVars>>

NextProbe == TestApiConnection \/ MakeRequest

SpecProbe == InitProbe /\ [][NextProbe]_vars

----------------------------------------------------------------------------
(* Claims about the loop.  A claim about what a handler does is stated on  *)
(* the state the handler starts from, for every outcome of its external    *)
(* calls: Dispatch(env) and Swept(env) are the handler's result.           *)

Dispatching == pc = "top" /\ Query(Now, "Running") # <<>>
Sweeping ==
    \/ pc = "wait" /\ ~over_budget
    \/ pc = "top" /\ Query(Now, "Running") = <<>> /\ InProgress(Now)
Picked == Query(Now, "Running")[1]

Dispatch(env) == process_running_audits(Begin(env))
Swept(env) == Sweep(Begin(env))

\* every run of the handler main() calls next in this state satisfies P
AllRuns(Failures, P(_)) ==
    /\ Dispatching =>
          \A env \in DispatchEnvs(CreateOutcomes, Failures) :
              \A R \in {Dispatch(env)} : P(R)
    /\ Sweeping =>
          \A env \in SweepEnvs(Failures) :
              \A R \in {Swept(env)} : P(R)

Rank ==
    [s \in {"Running", "Test Created", "Awaiting Email Sending", "Emails Sent",
            "GlockApps Completed", "Postmark Completed", "Completed"} |->
        CASE s = "Running" -> 1
          [] s = "Test Created" -> 2
          [] s = "Awaiting Email Sending" -> 3
          [] s = "Emails Sent" -> 4
          [] s = "GlockApps Completed" -> 5
          [] s = "Postmark Completed" -> 6
          [] s = "Completed" -> 7]

FailureStatuses == {"Error", "Report Error"}

\* the provider call `call` was made for record r before event i and failed
FailedBefore(R, i, r, call) ==
    \E j \in 1..(i - 1) :
        /\ R.trace[j].ev = "call" /\ R.trace[j].rec = r
        /\ R.trace[j].call = call /\ ~R.trace[j].ok

\* C1: with store calls succeeding, the Running record with a resolvable
\* domain that process_running_audits picks is in Awaiting Email Sending, or
\* in GlockApps Completed with the fallback test id, when the call returns,
\* whatever the blacklist providers and the test creation return.
C1_PickedRecordLeavesRunning ==
    (Dispatching /\ notion[Picked].domain = "ok") =>
        \A env \in DispatchEnvs(CreateOutcomes, {NoFailure}) :
          \A R \in {Dispatch(env)} :
            LET page == R.notion[Picked]
            IN  /\ R.ret
                /\ env.create.kind = "ok" => page.status = "Awaiting Email Sending"
                /\ env.create.kind # "ok" =>
                      /\ page.status = "GlockApps Completed"
                      /\ StartsWithFallback(page.test_id)

\* C1 witness: a dispatch whose test creation failed has just returned
C1_Witness ==
    /\ pc = "wait" /\ check_count = 0 /\ store_failures = 0
    /\ \E r \in Recs : /\ notion[r].status = "GlockApps Completed"
                       /\ StartsWithFallback(notion[r].test_id)

\* C2: every status write of the orchestrator keeps the record's status or
\* moves it forward in the order Running < Test Created < Awaiting Email
\* Sending < Emails Sent < GlockApps Completed < Postmark Completed <
\* Completed, or moves it to Error or Report Error.
C2_StatusWritesMoveForward ==
    AllRuns(StoreFailures, LAMBDA R :
        \A i \in 1..Len(R.trace) :
            LET e == R.trace[i] IN
            e.ev = "update" =>
                \/ e.to = e.from
                \/ e.to \in FailureStatuses
                \/ /\ e.from \in DOMAIN Rank /\ e.to \in DOMAIN Rank
                   /\ Rank[e.from] < Rank[e.to])

\* C2 witness: a record went through the whole order with a real test
C2_Witness ==
    \E r \in Recs : notion[r].status = "Completed" /\ notion[r].test_id \in TestIds

\* C3 as stated: every failed provider call is followed by the record's next
\* status, and the only write into a failure status is Running -> Error.
C3_OnlyDnsFailureIsTerminal ==
    AllRuns({NoFailure}, LAMBDA R :
        \A i \in 1..Len(R.trace) :
            LET e == R.trace[i] IN
            /\ (e.ev = "call" /\ e.call # "dns" /\ ~e.ok) =>
                  R.notion[e.rec].status \notin FailureStatuses \cup {e.from}
            /\ (e.ev = "update" /\ e.to \in FailureStatuses /\ e.to # e.from) =>
                  (e.from = "Running" /\ e.to = "Error"))

\* C3 amended: with store calls succeeding, a failed blacklist lookup or test
\* creation leaves the record in Awaiting Email Sending or GlockApps
\* Completed, a record whose scan or scraper was run (failed or not) ends in
\* Completed, and a failed poll moves the record to Report Error; the writes
\* into a failure status are Running -> Error after a failed DNS resolution
\* and Emails Sent -> Report Error after a failed poll.
C3_FailuresFallBackExceptPoll ==
    /\ AllRuns({NoFailure}, LAMBDA R :
          \A i \in 1..Len(R.trace) :
              LET e == R.trace[i]
                  status == R.notion[e.rec].status
              IN  e.ev = "call" =>
                    /\ (e.call \in {"ip_blacklist", "domain_blacklist", "create"}) =>
                          status \in {"Awaiting Email Sending", "GlockApps Completed"}
                    /\ (e.call \in {"scan", "scraper"}) => status = "Completed"
                    /\ (e.call = "poll" /\ ~e.ok) => status = "Report Error")
    /\ AllRuns(StoreFailures, LAMBDA R :
          \A i \in 1..Len(R.trace) :
              LET e == R.trace[i] IN
              (e.ev = "update" /\ e.to \in FailureStatuses /\ e.to # e.from) =>
                  \/ /\ e.from = "Running" /\ e.to = "Error"
                     /\ FailedBefore(R, i, e.rec, "dns")
                  \/ /\ e.from = "Emails Sent" /\ e.to = "Report Error"
                     /\ FailedBefore(R, i, e.rec, "poll"))

\* C3 witness: a failed poll has moved a record to Report Error
C3_Witness ==
    \E r \in Recs : /\ notion[r].status = "Report Error"
                    /\ notion[r].error_log = "Failed to get test report"

\* C5: with store calls succeeding, a record whose scraper run fails (nonzero
\* exit code or an exception) ends the sweep in Completed, with the final
\* report and no image block on its page, and the scraper failure in its
\* Error Log.
C5_ScraperFailureStillCompletes ==
    Sweeping =>
        \A env \in SweepEnvs({NoFailure}) :
          \A R \in {Swept(env)} :
            \A i \in 1..Len(R.trace) :
                LET e == R.trace[i]
                    page == R.notion[e.rec]
                IN  (e.ev = "call" /\ e.call = "scraper" /\ ~e.ok) =>
                        /\ page.status = "Completed"
                        /\ {"final_report", "missing_screenshots_note"} \subseteq page.blocks
                        /\ "image" \notin page.blocks
                        /\ page.error_log = "Postmaster scraper failed"

\* C5 witness: a record is Completed after a failed scraper run
C5_Witness ==
    \E r \in Recs : /\ notion[r].status = "Completed"
                    /\ notion[r].error_log = "Postmaster scraper failed"
                    /\ "missing_screenshots_note" \in notion[r].blocks

\* C7 as stated: any two polls of the same test id are at least
\* check_interval seconds apart.
C7_PollsAtLeastIntervalApart ==
    \A t \in TestIds : poll_gap[t] >= check_interval

\* C10 as stated: each of the 5 seed groups written to a record is a
\* non-empty group of addresses or the sentinel "Failed to retrieve".
C10_NoEmptySeedSlot ==
    \A r \in Recs :
        notion[r].test_id # NoTestId =>
            \A k \in 1..max_chunks :
                LET group == notion[r].seeds[k] IN
                \/ group = FailedToRetrieve
                \/ /\ Split(group) # <<>>
                   /\ \A i \in 1..Len(group) : group[i] >= Sep

\* C4 as stated: while the placement-test provider fails on every call and
\* store calls succeed, a Running record with a resolvable domain eventually
\* is Completed with the fallback test id, inbox and spam rates 0 and the
\* fallback warning in its final report.
C4_FallbackReachesCompleted ==
    \A r \in Recs :
        (notion[r].status = "Running" /\ notion[r].domain = "ok")
            ~> (/\ notion[r].status = "Completed"
                /\ StartsWithFallback(notion[r].test_id)
                /\ notion[r].inbox = 0 /\ notion[r].spam = 0
                /\ "fallback_warning" \in notion[r].blocks)

\* the statuses no handler queries for
TerminalStatuses == {"Completed", "Error", "Report Error", "Blacklist Failed"}

\* C12: no handler run of the loop writes a field or a content block of a
\* record that is in Completed, Error, Report Error or Blacklist Failed at
\* that moment, or calls a provider for it (no human edit in between).
C12_TerminalRecordsUntouched ==
    AllRuns(StoreFailures, LAMBDA R :
        \A i \in 1..Len(R.trace) : R.trace[i].from \notin TerminalStatuses)

\* C12 witness: record 1 ended in Error at its dispatch, and record 2 was
\* taken through every step after that
C12_Witness ==
    /\ notion[1].status = "Error"
    /\ notion[2].status = "Completed"
    /\ notion[2].test_id \in TestIds

\* C13 as stated: when the IP or the domain blacklist lookup fails, the
\* status text written in step 1 differs from the text written for a real
\* result with zero detections.
C13_FailedLookupIsFlagged ==
    (Dispatching /\ notion[Picked].domain = "ok") =>
        \A env \in DispatchEnvs(CreateOutcomes, {NoFailure}) :
          \A R \in {Dispatch(env)} :
            LET real == BlacklistStatusText(check_blacklists("ok"))
            IN  /\ env.ip # "ok" => R.notion[Picked].ip_bl # real
                /\ env.dom # "ok" => R.notion[Picked].dom_bl # real

\* the properties of a page, without its content blocks
Fields(page) == [f \in DOMAIN page \ {"blocks"} |-> page[f]]

\* C14 as stated: a record that reaches Completed in a sweep whose scan
\* failed has stored fields that differ from the fields it has when the scan
\* of the same sweep returns the score 0.
C14_FailedScanIsFlagged ==
    Sweeping =>
        \A env \in SweepEnvs({NoFailure}) :
          env.scan.kind # "ok" =>
            \A R \in {Swept(env)},
               Real \in {Swept([env EXCEPT !.scan = [kind |-> "ok", score |-> 0]])} :
                \A i \in 1..Len(R.trace) :
                    LET e == R.trace[i] IN
                    (/\ e.ev = "call" /\ e.call = "scan" /\ ~e.ok
                     /\ R.notion[e.rec].status = "Completed")
                        => Fields(R.notion[e.rec]) # Fields(Real.notion[e.rec])

\* the records that are in `status` in state S and no longer in state R
Left(S, R, status) ==
    {r \in Recs : S.notion[r].status = status /\ R.notion[r].status # status}

\* C15 as stated: one call of check_completed_tests moves at most one record
\* out of Emails Sent, at most one out of GlockApps Completed and at most
\* one out of Postmark Completed.
C15_OneRecordPerStatusPerSweep ==
    Sweeping =>
        \A env \in SweepEnvs({NoFailure}) :
          \A S \in {handle_fallback_glockapps_audits(Begin(env))} :
            \A R \in {check_completed_tests(S)} :
              \A status \in {"Emails Sent", "GlockApps Completed", "Postmark Completed"} :
                  Cardinality(Left(S, R, status)) <= 1

\* C16 as stated: one pass of the loop (the fallback handler, then the
\* sweep) changes the status of at most one record, and by one transition
\* of the status order only.
C16_OneRecordOneStepPerIteration ==
    Sweeping =>
        \A env \in SweepEnvs({NoFailure}) :
          \A R \in {Swept(env)} :
            /\ Cardinality({r \in Recs : R.notion[r].status # notion[r].status}) <= 1
            /\ \A r \in Recs :
                  (/\ notion[r].status \in DOMAIN Rank
                   /\ R.notion[r].status \in DOMAIN Rank)
                      => Rank[R.notion[r].status] - Rank[notion[r].status] <= 1

\* the place of each external call in the order of the steps, and the rank
\* of the status in which its step is run
StepOrder ==
    [c \in {"dns", "ip_blacklist", "domain_blacklist", "create", "poll", "scan", "scraper"} |->
        CASE c = "dns" -> 1
          [] c = "ip_blacklist" -> 2
          [] c = "domain_blacklist" -> 3
          [] c = "create" -> 4
          [] c = "poll" -> 5
          [] c = "scan" -> 6
          [] c = "scraper" -> 7]

StepStatus ==
    [c \in DOMAIN StepOrder |->
        CASE c \in {"dns", "ip_blacklist", "domain_blacklist", "create"} -> "Running"
          [] c = "poll" -> "Emails Sent"
          [] c = "scan" -> "GlockApps Completed"
          [] c = "scraper" -> "Postmark Completed"]

\* the external calls of a handler run follow C17
StepsOnceInStatusOrder(R) ==
    \A i \in 1..Len(R.trace) :
        LET e == R.trace[i] IN
        e.ev = "call" =>
            /\ e.from \in DOMAIN Rank
            /\ Rank[e.from] <= Rank[StepStatus[e.call]]
            /\ \A j \in (i + 1)..Len(R.trace) :
                  LET f == R.trace[j] IN
                  (f.ev = "call" /\ f.rec = e.rec) =>
                      /\ StepOrder[e.call] < StepOrder[f.call]

\* C17 as stated, for the calls of one pass of the loop: the external calls
\* made for a record come in the order of the steps, none is made for a
\* record whose status is past the step, and none is made twice.
C17_StepsOnceInStatusOrder ==
    AllRuns(StoreFailures, LAMBDA R : StepsOnceInStatusOrder(R))

\* C18: a sweep of the wait loop starts only with fewer than max_checks
\* sweeps done and the time budget not exceeded: when the budget is exceeded
\* the pass writes nothing, creates no test and leaves the loop; and the wait
\* loop always returns to the outer loop, also when a record stays in an
\* in-progress status.
C18_WaitLoopTerminates ==
    /\ [](pc = "wait" => check_count < max_checks)
    /\ [][(pc = "wait" /\ over_budget) =>
            /\ pc' = "top"
            /\ UNCHANGED <<notion, glock_tests, poll_gap, store_failures>>]_vars
    /\ (pc = "wait") ~> (pc = "top")

\* C18 witness: the last sweep the count allows is about to start, with a
\* record still waiting for the human
C18_Witness ==
    /\ pc = "wait" /\ check_count = max_checks - 1 /\ ~over_budget
    /\ \E r \in Recs : notion[r].status = "Awaiting Email Sending"

\* the records that reached one of `statuses` in the handler run R
Reached(R, statuses) ==
    {r \in Recs : R.notion[r].status \in statuses /\ notion[r].status \notin statuses}

\* C19 as stated: a pass of the wait loop leaves the loop after its sweep
\* exactly when no record is in progress, or a record reached Completed in
\* the sweep, or a record reached Error, Report Error or Blacklist Failed in
\* the sweep.  (A record that is Completed when a pass starts was Completed
\* before the dispatch: the pass that completes a record leaves the loop.)
C19_WaitEndsOnNewTerminalOnly ==
    (pc = "wait" /\ ~over_budget) =>
        \A env \in SweepEnvs({NoFailure}) :
          \A R \in {Swept(env)} :
            WaitBreaks(R) <=>
                \/ ~InProgress(R)
                \/ Reached(R, {"Completed"}) # {}
                \/ Reached(R, {"Error", "Report Error", "Blacklist Failed"}) # {}

\* the events of a handler run that are about record r
EventsOf(R, r) == SelectSeq(R.trace, LAMBDA e : e.rec = r)

\* C21: when process_running_audits picks a Running record whose domain does
\* not resolve, it makes one store write for it, which sets the status Error,
\* the Error Log and both blacklist texts together (a failed write leaves the
\* record as it was), and no blacklist lookup and no test creation; with the
\* write succeeding the record is in Error, and no later handler run calls a
\* provider for a record in Error or writes to it.
C21_UnresolvedDomainEndsInError ==
    /\ (Dispatching /\ notion[Picked].domain = "unresolvable") =>
          \A env \in DispatchEnvs(CreateOutcomes, StoreFailures) :
            \A R \in {Dispatch(env)} :
              LET events == EventsOf(R, Picked)
                  writes == SelectSeq(events, LAMBDA e : e.ev # "call")
                  calls == SelectSeq(events, LAMBDA e : e.ev = "call")
              IN  /\ Len(calls) = 1 /\ calls[1].call = "dns" /\ ~calls[1].ok
                  /\ R.tests = glock_tests
                  /\ Len(writes) = 1 /\ writes[1].ev = "update"
                  /\ writes[1].ok =>
                        /\ R.notion[Picked] = Merge(notion[Picked], error_properties)
                        /\ R.notion[Picked].status = "Error"
                        /\ R.notion[Picked].error_log = "Failed to resolve IP"
                  /\ ~writes[1].ok => R.notion[Picked] = notion[Picked]
                  /\ env.fail = NoFailure => writes[1].ok
                  /\ \A r \in Recs \ {Picked} : R.notion[r] = notion[r]
    /\ AllRuns(StoreFailures, LAMBDA R :
          \A r \in Recs :
              notion[r].status = "Error" =>
                  EventsOf(R, r) = <<>> /\ R.notion[r] = notion[r])

\* C21 witness: a record whose domain does not resolve is in Error after its
\* dispatch, and the loop went on to a later pass
C21_Witness ==
    /\ pc = "wait" /\ check_count > 0
    /\ \E r \in Recs : /\ notion[r].domain = "unresolvable"
                       /\ notion[r].status = "Error"
                       /\ notion[r].error_log = "Failed to resolve IP"

\* C22: started on a store that holds records in Emails Sent with a test id,
\* in GlockApps Completed or in Postmark Completed (the tracking table empty,
\* as after a restart), with store calls succeeding and the loop kept
\* running, every such record eventually is in Completed or Report Error,
\* also when the wait loop runs out of passes in between.  The polled test
\* reports finished or the same not-delivered count on every poll.
C22_ParkedRecordsFinish ==
    \A r \in Recs :
        (\/ notion[r].status = "Emails Sent" /\ notion[r].test_id # NoTestId
         \/ notion[r].status \in {"GlockApps Completed", "Postmark Completed"})
            ~> (notion[r].status \in {"Completed", "Report Error"})

\* C22 witness: both records were parked with a placement test when the
\* process started, and both are Completed with their final report
C22_Witness ==
    \A r \in Recs :
        /\ notion[r].status = "Completed" /\ notion[r].test_id \in TestIds
        /\ "final_report" \in notion[r].blocks

\* the notes the engine writes to the Error Log, and the empty text
ErrorNotes ==
    { "", error_properties.error_log, fallback_properties.error_log,
      "Ready for manual email sending", "Using fallback values",
      "Failed to get test report", "Postmaster scraper failed" }

SuccessStatuses ==
    {"Awaiting Email Sending", "GlockApps Completed", "Postmark Completed", "Completed"}

\* C24 as stated: with store calls succeeding, a write that moves a record
\* to Awaiting Email Sending, GlockApps Completed, Postmark Completed or
\* Completed, with no failed provider call for the record in that handler
\* run, leaves the record with an empty Error Log.
C24_ErrorLogClearedOnSuccess ==
    AllRuns({NoFailure}, LAMBDA R :
        \A i \in 1..Len(R.trace) :
            LET e == R.trace[i] IN
            (/\ e.ev = "update" /\ e.ok
             /\ e.to \in SuccessStatuses /\ e.to # e.from
             /\ \A j \in 1..Len(R.trace) :
                   (R.trace[j].ev = "call" /\ R.trace[j].rec = e.rec) => R.trace[j].ok)
                => e.log = "")

\* C25 as stated: in every reachable state a record in Awaiting Email
\* Sending has a test id and its seed groups stored, and a record in
\* Postmark Completed has its spam score stored.
C25_NoHalfWrittenRecord ==
    \A r \in Recs :
        /\ notion[r].status = "Awaiting Email Sending" =>
              /\ notion[r].test_id # NoTestId
              /\ notion[r].seeds # NewPage("ok").seeds
        /\ notion[r].status = "Postmark Completed" => notion[r].score # None

\* C26 as stated: started on the store an interrupted run left behind, with
\* store calls succeeding and the loop kept running, a record in Test
\* Created eventually leaves that status.
C26_TestCreatedIsResumed ==
    \A r \in Recs :
        (notion[r].status = "Test Created") ~> (notion[r].status # "Test Created")

\* C27 as stated: every record in Completed has the final report on its page.
C27_CompletedHasFinalReport ==
    \A r \in Recs :
        notion[r].status = "Completed" => "final_report" \in notion[r].blocks

\* an outcome with the transport error taken for an HTTP error
AsHttp(out) == IF out = "transport" THEN "http" ELSE out

\* C28: with store calls succeeding, a handler run in which blacklist
\* lookups, the test creation or the scan fail with a transport error leaves
\* every record with the same status, fields and page content as the run in
\* which the same calls fail with an HTTP error.
C28_HttpAndTransportFallBackAlike ==
    /\ (Dispatching /\ notion[Picked].domain = "ok") =>
          \A env \in DispatchEnvs(CreateOutcomes, {NoFailure}) :
            \A R \in {Dispatch(env)},
               H \in {Dispatch([env EXCEPT !.ip = AsHttp(@), !.dom = AsHttp(@),
                                           !.create.kind = AsHttp(@)])} :
                R.notion = H.notion
    /\ Sweeping =>
          \A env \in SweepEnvs({NoFailure}) :
            \A R \in {Swept(env)},
               H \in {Swept([env EXCEPT !.scan.kind = AsHttp(@)])} :
                R.notion = H.notion

\* C28 witness: a record went through the fallback of the scan
C28_Witness ==
    \E r \in Recs : /\ notion[r].status = "Completed"
                    /\ fallback_postmark_results.deliverability_status \in notion[r].blocks

\* C29: one call of process_running_audits makes calls and store writes for
\* the first Running record of the query only, creates at most one test, and
\* leaves every other record as it was, whatever the providers and the store
\* answer.
C29_OnlyThePickedRecord ==
    Dispatching =>
        \A env \in DispatchEnvs(CreateOutcomes, StoreFailures) :
          \A R \in {Dispatch(env)} :
            /\ \A i \in 1..Len(R.trace) : R.trace[i].rec = Picked
            /\ \A r \in Recs \ {Picked} : R.notion[r] = notion[r]
            /\ R.tests <= glock_tests + 1

\* C29 witness: of two Running records the first has been dispatched and the
\* second is as it was created
C29_Witness ==
    /\ pc = "wait" /\ check_count = 0
    /\ notion[1].status = "Awaiting Email Sending"
    /\ notion[2] = NewPage("ok")

\* what get_test_report does with the poll answer for record r in this
\* state: the throttle skips the poll, the poll raises, or its status
PollOf(r, poll) ==
    LET test_id == notion[r].test_id
        tracking == IF test_tracking[test_id].tracked
                    THEN test_tracking[test_id] ELSE FreshEntry
        results == check_test_completion_stability(poll, tracking.history)
    IN  IF tracking.since_check < check_interval THEN "skipped"
        ELSE IF results.raised THEN "raised"
        ELSE results.status

\* C30: in a sweep, a record in Emails Sent with a placement test whose poll
\* is skipped by the throttle or answers not ready gets no store write: its
\* status, fields and page content are as before; a skipped poll makes no
\* provider call, and a poll that is not ready changes the tracking entry.
C30_NotReadyPollWritesNothing ==
    Sweeping =>
        \A env \in SweepEnvs(StoreFailures) :
          \A R \in {Swept(env)} :
            \A r \in Recs :
              (/\ notion[r].status = "Emails Sent" /\ notion[r].test_id \in TestIds
               /\ PollOf(r, env.poll) \in {"skipped", "not_ready"})
                  => /\ R.notion[r] = notion[r]
                     /\ \A i \in 1..Len(R.trace) :
                           R.trace[i].rec = r =>
                               /\ R.trace[i].ev = "call" /\ R.trace[i].call = "poll"
                               /\ PollOf(r, env.poll) = "not_ready"
                     /\ PollOf(r, env.poll) = "not_ready" =>
                           /\ EventsOf(R, r) # <<>>
                           /\ R.tracking[notion[r].test_id].tracked
                           /\ R.tracking[notion[r].test_id].since_check = 0
                           /\ R.tracking[notion[r].test_id].history # <<>>

\* C30 witness: a record is in Emails Sent, untouched, after a poll of its
\* test that was not ready
C30_Witness ==
    \E r \in Recs :
        /\ notion[r].status = "Emails Sent" /\ notion[r].test_id \in TestIds
        /\ notion[r].blocks = {} /\ notion[r].inbox = None
        /\ test_tracking[notion[r].test_id].tracked
        /\ test_tracking[notion[r].test_id].history # <<>>

\* C31: in a sweep, a record in Emails Sent whose placement-test poll raises
\* (no response for any header variant, or a non-200 answer) gets one store
\* write that carries the status Report Error and the Error Log "Failed to
\* get test report" together; when the store accepts it the record holds
\* both and nothing else changed.  No handler run calls a provider for, or
\* writes to, a record in Report Error: it stays there, as it is.
C31_FailedPollEndsInReportError ==
    /\ Sweeping =>
          \A env \in SweepEnvs(StoreFailures) :
            \A R \in {Swept(env)} :
              \A r \in Recs :
                (/\ notion[r].status = "Emails Sent" /\ notion[r].test_id \in TestIds
                 /\ PollOf(r, env.poll) = "raised")
                    => LET events == EventsOf(R, r)
                           writes == SelectSeq(events, LAMBDA e : e.ev # "call")
                           calls == SelectSeq(events, LAMBDA e : e.ev = "call")
                       IN  /\ Len(calls) = 1 /\ calls[1].call = "poll" /\ ~calls[1].ok
                           /\ Len(writes) = 1 /\ writes[1].ev = "update"
                           /\ DOMAIN writes[1].props = {"status", "error_log"}
                           /\ writes[1].props.status = "Report Error"
                           /\ writes[1].props.error_log = "Failed to get test report"
                           /\ writes[1].ok =>
                                 R.notion[r] = Merge(notion[r], writes[1].props)
                           /\ ~writes[1].ok => R.notion[r] = notion[r]
                           /\ env.fail = NoFailure => writes[1].ok
    /\ AllRuns(StoreFailures, LAMBDA R :
          \A r \in Recs :
              notion[r].status = "Report Error" =>
                  EventsOf(R, r) = <<>> /\ R.notion[r] = notion[r])

\* C31 witness: a record is in Report Error with the note of the failed poll
\* and the seed groups of its test, and the loop is back at its top
C31_Witness ==
    \E r \in Recs :
        /\ notion[r].status = "Report Error" /\ notion[r].test_id \in TestIds
        /\ notion[r].error_log = "Failed to get test report"
        /\ notion[r].inbox = None /\ pc = "top"

\* C33: no handler run sends a store write that carries the status Running,
\* Emails Sent or Blacklist Failed, whatever the providers and the store
\* answer, and no handler run sends a store write (fields or page content)
\* to a record that is in Awaiting Email Sending at that moment or calls a
\* provider for it: only the human edit takes a record out of that status.
C33_HumanStatusesAreNotWritten ==
    AllRuns(StoreFailures, LAMBDA R :
        /\ \A i \in 1..Len(R.trace) :
              LET e == R.trace[i] IN
              /\ (e.ev = "update" /\ "status" \in DOMAIN e.props) =>
                    e.props.status \notin {"Running", "Emails Sent", "Blacklist Failed"}
              /\ e.to \notin {"Running", "Emails Sent", "Blacklist Failed"}
                    \/ e.to = e.from
              /\ e.from # "Awaiting Email Sending"
        /\ \A r \in Recs :
              notion[r].status = "Awaiting Email Sending" =>
                  EventsOf(R, r) = <<>> /\ R.notion[r] = notion[r])

\* C33 witness: the first record still waits for the human while the loop
\* took the second record to Completed
C33_Witness ==
    /\ notion[1].status = "Awaiting Email Sending"
    /\ notion[1].error_log = "Ready for manual email sending"
    /\ notion[2].status = "Completed"

\* C35 as stated: with store calls succeeding, the dispatch of a Running
\* record that has no domain relation, or whose domain name cannot be read,
\* writes to the record: its Error Log or its status is not what it was.
C35_UnreadableDomainIsSurfaced ==
    (Dispatching /\ notion[Picked].domain = "none") =>
        \A env \in DispatchEnvs(CreateOutcomes, {NoFailure}) :
          \A R \in {Dispatch(env)} :
            \/ R.notion[Picked].status # notion[Picked].status
            \/ R.notion[Picked].error_log # notion[Picked].error_log

\* C40 as stated: in every reachable state the tracking table holds an entry
\* for a test id only if the record with that test id is in Emails Sent (the
\* entry is gone once the record is in GlockApps Completed or Report Error),
\* and no handler run removes the entry of a record that stays in Emails
\* Sent.
C40_TrackedOnlyWhileEmailsSent ==
    /\ \A t \in TestIds :
          test_tracking[t].tracked =>
              \E r \in Recs : notion[r].test_id = t /\ notion[r].status = "Emails Sent"
    /\ AllRuns(StoreFailures, LAMBDA R :
          \A r \in Recs :
              (/\ notion[r].test_id \in TestIds
               /\ test_tracking[notion[r].test_id].tracked
               /\ R.notion[r].status = "Emails Sent")
                  => R.tracking[notion[r].test_id].tracked)

\* C37 as stated: with store calls succeeding and the loop kept running,
\* whatever the other records hold (one of them may have no readable
\* domain), a Running record with a resolvable domain is eventually picked
\* and leaves Running.
C37_RunningRecordIsNotStarved ==
    \A r \in Recs :
        (notion[r].status = "Running" /\ notion[r].domain = "ok")
            ~> (notion[r].status # "Running")

\* C38 as stated: with store calls succeeding and the loop kept running,
\* whatever the other records hold (the first record of the query may have
\* no readable domain), a record with a readable domain that is parked in
\* GlockApps Completed is eventually advanced out of it, and so is one
\* parked in Postmark Completed.
C38_ParkedRecordIsNotStarved ==
    \A r \in Recs :
        /\ (notion[r].status = "GlockApps Completed" /\ notion[r].domain = "ok")
              ~> (notion[r].status # "GlockApps Completed")
        /\ (notion[r].status = "Postmark Completed" /\ notion[r].domain = "ok")
              ~> (notion[r].status # "Postmark Completed")

\* C34 as stated: once the handler that ran the scraper for a record has
\* returned, the screenshot directory of the record's domain does not exist,
\* whatever the scraper and the store answered: no state between two
\* handlers has a screenshot directory.
C34_NoScreenshotDirectoryRemains == screenshot_dirs = {}

\* C39 as stated: with one instance of the loop, whatever the providers and
\* the store answer, the provider has created at most one placement test for
\* each record.
C39_OneTestPerRecord == \A r \in Recs : tests_created[r] <= 1

\* C36: with two instances on one store, an instance that took a record
\* from its Running query runs steps 1-2 on it whatever the record's status
\* has become: while the record is Running the query of the other instance
\* yields the same record, and when the provider accepts the creation the
\* step creates a test for the record, also after the other instance has
\* created one and moved the record on.
C36_NothingPreventsDoubleProcessing ==
    \A i \in Instances :
        (picked[i] # 0 /\ notion[picked[i]].domain = "ok") =>
            /\ notion[picked[i]].status = "Running" =>
                  Query(Now, "Running")[1] = picked[i]
            /\ \A env \in TwoEnvs(picked[i]) :
                  env.create.kind = "ok" =>
                      \A R \in {process_single_audit(Begin(env), picked[i])} :
                          /\ R.tests = glock_tests + 1
                          /\ \E k \in 1..Len(R.trace) :
                                /\ R.trace[k].ev = "call" /\ R.trace[k].call = "create"
                                /\ R.trace[k].rec = picked[i] /\ R.trace[k].ok

\* C36 witness: both instances ran steps 1-2 on one record, and the provider
\* created two placement tests for it
C36_Witness ==
    \E r \in Recs :
        /\ tests_created[r] = 2 /\ glock_tests = 2
        /\ notion[r].test_id = 2 /\ notion[r].status = "Awaiting Email Sending"

\* C32 as stated: once a request of the process has been accepted with one
\* header variant, every later request is sent with that variant and with
\* no other (so the process probes the variants in one pass only).
C32_PinnedVariantOnly ==
    \A n \in 1..Len(requests) :
        LET pinned == Pinned(SubSeq(requests, 1, n - 1))
        IN  pinned # 0 => requests[n].sent = <<pinned>>

\* C20 as stated: whatever a record holds and whichever store query or
\* provider call fails, main() stays in its loop.
C20_LoopNeverStops == pc # "stopped"

----------------------------------------------------------------------------
(* SpecSeed: split_seed_list on every seed list of 0..MaxSeeds addresses   *)

SeedLists == { [i \in 1..n |-> i] : n \in 0..MaxSeeds }

InitSeed ==
    /\ seed_list \in SeedLists
    /\ notion = [r \in Recs |-> NewPage("none")]
    /\ test_tracking = [t \in TestIds |-> NoEntry]
    /\ glock_tests = 0
    /\ store_failures = 0
    /\ since_poll = [t \in TestIds |-> check_interval]
    /\ poll_gap = [t \in TestIds |-> check_interval]
    /\ pc = "top"
    /\ check_count = 0
    /\ over_budget = FALSE
    /\ tests_created = [r \in Recs |-> 0]
    /\ screenshot_dirs = {}
    /\ NothingPicked
    /\ ProbeIdle
    /\ seed_chunks = <<>>
    /\ not_delivered_history = <<>>
    /\ polls = <<>>
    /\ poll_status = ""
    /\ ScanIdle

\* seed_chunks = split_seed_list(seed_list)
SplitSeedList ==
    /\ seed_chunks = <<>>
    /\ seed_chunks' = split_seed_list(seed_list, chunk_size, max_chunks)
    /\ UNCHANGED <<seed_list, stabVars, mainVars, scanVars, twoVars, probeVars>>

NextSeed == SplitSeedList

SpecSeed == InitSeed /\ [][NextSeed]_vars

Recovered(chunks) ==
    Concat([k \in 1..Len(chunks) |->
        IF chunks[k] = FailedToRetrieve THEN <<>> ELSE Split(chunks[k])])

\* C9 as stated: for every seed list of 0..200 addresses, concatenating the
\* non-sentinel groups in group order gives back the original list.
C9_RoundTripUpTo200 ==
    seed_chunks # <<>> => Recovered(seed_chunks) = seed_list

\* C9 amended: the groups give back the first 125 addresses of the list in
\* order; the round trip is the identity exactly for lists of at most 125.
C9_RoundTripUpTo125 ==
    seed_chunks # <<>> =>
        /\ Recovered(seed_chunks) = SubSeq(seed_list, 1, Min(Len(seed_list), 125))
        /\ (Len(seed_list) <= 125 => Recovered(seed_chunks) = seed_list)
        /\ (Len(seed_list) > 125 => Recovered(seed_chunks) # seed_list)

\* C9 witness: a list that fills all 5 groups has been chunked
C9_Witness == seed_chunks # <<>> /\ Len(seed_list) = 125

----------------------------------------------------------------------------
(* SpecBand: _parse_postmark_results on every scanner score                *)

InitBand ==
    /\ raw_result \in RawResults
    /\ parsed_result = NoResult
    /\ notion = [r \in Recs |-> NewPage("none")]
    /\ test_tracking = [t \in TestIds |-> NoEntry]
    /\ glock_tests = 0
    /\ store_failures = 0
    /\ since_poll = [t \in TestIds |-> check_interval]
    /\ poll_gap = [t \in TestIds |-> check_interval]
    /\ pc = "top"
    /\ check_count = 0
    /\ over_budget = FALSE
    /\ tests_created = [r \in Recs |-> 0]
    /\ screenshot_dirs = {}
    /\ NothingPicked
    /\ ProbeIdle
    /\ seed_list = <<>>
    /\ seed_chunks = <<>>
    /\ not_delivered_history = <<>>
    /\ polls = <<>>
    /\ poll_status = ""

\* parsed_result = self._parse_postmark_results(result, ...)
ParsePostmarkResults ==
    /\ parsed_result = NoResult
    /\ parsed_result' = parse_postmark_results(raw_result)
    /\ UNCHANGED <<raw_result, seedVars, stabVars, mainVars, twoVars, probeVars>>

NextBand == ParsePostmarkResults

SpecBand == InitBand /\ [][NextBand]_vars

\* C11: the band is Excellent below 5, Good from 5 to below 10, Fair from 10
\* to below 15 and Poor from 15 up; every score, negative ones included, has
\* exactly one of the four bands, and 4.9, 5.0, 9.9, 10.0, 14.9, 15.0 give
\* Excellent, Good, Good, Fair, Fair, Poor.
C11_BandingByThresholds ==
    parsed_result # NoResult =>
        LET score == parsed_result.spam_score
            band == parsed_result.deliverability_status
        IN  /\ parsed_result.status = "success"
            /\ score = (IF raw_result.present THEN raw_result.score ELSE 0)
            /\ band \in {"Excellent", "Good", "Fair", "Poor"}
            /\ band = "Excellent" <=> score < 50
            /\ band = "Good" <=> (50 <= score /\ score < 100)
            /\ band = "Fair" <=> (100 <= score /\ score < 150)
            /\ band = "Poor" <=> score >= 150
            /\ score = 49 => band = "Excellent"
            /\ score \in {50, 99} => band = "Good"
            /\ score \in {100, 149} => band = "Fair"
            /\ score = 150 => band = "Poor"

\* C11 witness: the score 5.0, on the first threshold, has been parsed
C11_Witness ==
    /\ raw_result.present /\ raw_result.score = 50
    /\ parsed_result.deliverability_status = "Good"

----------------------------------------------------------------------------
(* SpecStability: one test id polled until it is treated as complete       *)

InitStability ==
    /\ seed_list = <<>>
    /\ notion = [r \in Recs |-> NewPage("none")]
    /\ test_tracking = [t \in TestIds |-> NoEntry]
    /\ glock_tests = 0
    /\ store_failures = 0
    /\ since_poll = [t \in TestIds |-> check_interval]
    /\ poll_gap = [t \in TestIds |-> check_interval]
    /\ pc = "top"
    /\ check_count = 0
    /\ over_budget = FALSE
    /\ tests_created = [r \in Recs |-> 0]
    /\ screenshot_dirs = {}
    /\ NothingPicked
    /\ ProbeIdle
    /\ seed_chunks = <<>>
    /\ not_delivered_history = <<>>
    /\ polls = <<>>
    /\ poll_status = ""
    /\ ScanIdle

\* one successful poll of get_test_report: lines 509-529
PollTest ==
    /\ poll_status # "completed"
    /\ Len(polls) < MaxPolls
    /\ \E resp \in OkPolls :
        LET results == check_test_completion_stability(resp, not_delivered_history)
        IN  /\ not_delivered_history' = results.history
            /\ poll_status' = results.status
            /\ polls' = Append(polls, resp)
    /\ UNCHANGED <<seedVars, mainVars, scanVars, twoVars, probeVars>>

NextStability == PollTest

SpecStability == InitStability /\ [][NextStability]_vars

\* the not-delivered counts of the polls so far
Counts == [i \in 1..Len(polls) |-> polls[i].notDelivered]

\* the latest poll and the two before it were not finished and agree
LastThreeEqual ==
    /\ Len(polls) >= 3
    /\ \A i \in (Len(polls) - 2)..Len(polls) :
        /\ ~polls[i].finished
        /\ polls[i].notDelivered = polls[Len(polls)].notDelivered

\* C6: a poll is treated as complete iff the provider reports finished on
\* that poll or its count equals those of the two preceding not-finished
\* polls; [5,5,5] completes on the third poll, [5,6,5] on none; the history
\* never holds more than 3 entries.
C6_CompleteIffFinishedOrStable ==
    /\ Len(not_delivered_history) <= 3
    /\ polls # <<>> =>
        /\ poll_status \in {"completed", "not_ready"}
        /\ poll_status = "completed" <=>
              (polls[Len(polls)].finished \/ LastThreeEqual)
    /\ (Counts = <<5, 5, 5>> /\ \A i \in 1..3 : ~polls[i].finished)
          => poll_status = "completed"
    /\ (\E n \in 1..3 : Counts = SubSeq(<<5, 6, 5>>, 1, n)
                        /\ \A i \in 1..n : ~polls[i].finished)
          => poll_status = "not_ready"

\* C6 witness: a test stabilises on a poll after the third, once the oldest
\* count has been dropped from the history
C6_Witness ==
    /\ Len(polls) >= 4
    /\ ~polls[Len(polls)].finished
    /\ poll_status = "completed"

====
